---- MODULE Spec2Model ----
(***************************************************************************)
(* Skill extraction, keyword match analysis, cosine similarity, the job    *)
(* ranking endpoint, the application endpoints and the worker endpoints of *)
(* backend/app/main.py; WorkerManager of backend/workers/worker_manager.py *)
(* and run_once of backend/workers/gemini_apply_worker.py.                 *)
(*                                                                         *)
(* A Python str is modelled as a sequence of one-character strings, so     *)
(* that regular-expression matching, lower-casing and stripping are        *)
(* computed character by character as the code computes them.              *)
(***************************************************************************)
EXTENDS Integers, Sequences, FiniteSets, TLC

VARIABLES
  pc,               \* position of the modelled caller
  text,             \* argument of extract_skills_from_text
  skills1,          \* list returned by a first call on text
  skills2,          \* list returned by a second call on text
  user_skills,      \* analyze_job_match / match_jobs: the candidate's skills
  job_description,  \* analyze_job_match: argument
  job_requirements, \* analyze_job_match: argument
  job_skills,       \* analyze_job_match: local set (lines 420-425)
  top_keywords,     \* analyze_job_match: local list before the [:10] slice
  missing_skills,   \* analyze_job_match: local list before the [:10] slice
  analysis,         \* analyze_job_match: returned dict
  vec_a,            \* cosine_similarity: argument a
  vec_b,            \* cosine_similarity: argument b
  cos_result,       \* cosine_similarity: what the call produced
  resume_embedding, \* match_jobs: request.embedding
  top_n,            \* match_jobs: request.top_n
  jobs,             \* match_jobs: response.data, the rows of the jobs table
  idx,              \* match_jobs: index of the row the loop is at
  job_matches,      \* match_jobs: local list (line 767)
  response,         \* match_jobs: what the endpoint answers
  norm_in,          \* normalize_skill: two skill strings
  norm_out,         \* normalize_skill: their keys
  norm_again,       \* normalize_skill: the keys of their keys
  users_table,      \* the ids in the users table
  applications,     \* the rows of the applications table
  unique_constraint,\* the table rejects a second row for a (user_id, job_id)
  requests,         \* queue_applications: the requests and their locals
  marks,            \* mark_application_as_manually_submitted: the requests
  now,              \* datetime.now(), a logical clock
  calls,            \* the calls of extract_skills_from_text and
                    \* analyze_job_match in progress, with their locals
  processes,        \* the pids of the gemini_apply_worker processes alive
  pid_file,         \* worker.pid: the pid it holds, 0 when there is no file
  spawned,          \* the number of processes subprocess.Popen has started
  manager_calls,    \* the WorkerManager calls in progress, with their locals
  worker_run        \* GeminiApplyWorker.run_once: its position and locals

extract_vars == << text, skills1, skills2 >>

analyze_vars == << user_skills, job_description, job_requirements,
                   job_skills, top_keywords, missing_skills, analysis >>

cosine_vars == << vec_a, vec_b, cos_result >>

rank_vars == << resume_embedding, top_n, jobs, idx, job_matches, response >>

norm_vars == << norm_in, norm_out, norm_again >>

app_vars == << users_table, applications, unique_constraint, requests,
               marks, now >>

call_vars == << calls >>

manager_vars == << processes, pid_file, spawned, manager_calls >>

run_vars == << worker_run >>

vars == << pc, extract_vars, analyze_vars, cosine_vars, rank_vars,
           norm_vars, app_vars, call_vars, manager_vars, run_vars >>

None == "None"

----------------------------------------------------------------------------
(* Characters and strings *)

UpperCase ==
  << "A","B","C","D","E","F","G","H","I","J","K","L","M",
     "N","O","P","Q","R","S","T","U","V","W","X","Y","Z" >>

LowerCase ==
  << "a","b","c","d","e","f","g","h","i","j","k","l","m",
     "n","o","p","q","r","s","t","u","v","w","x","y","z" >>

DigitChars == {"0","1","2","3","4","5","6","7","8","9"}

Range(s) == { s[i] : i \in DOMAIN s }

\* \w of the re module: letters, digits and the underscore
WordChars == Range(UpperCase) \cup Range(LowerCase) \cup DigitChars \cup {"_"}

\* characters removed by str.strip()
WhiteSpace == {" ", "\t", "\n"}

LowerMap ==
  [ c \in Range(UpperCase) |->
      LowerCase[CHOOSE i \in DOMAIN UpperCase : UpperCase[i] = c] ]

\* str.lower() on one character
lower_char(c) == IF c \in DOMAIN LowerMap THEN LowerMap[c] ELSE c

\* str.lower()
lower(s) == [ i \in DOMAIN s |-> lower_char(s[i]) ]

----------------------------------------------------------------------------
(* The skill catalog: the alternatives of each pattern, in the order the   *)
(* regular expression lists them.  An optional dot (Node\.?js) is the      *)
(* alternative with the dot followed by the one without, which is the      *)
(* order in which the greedy ? tries them.                                 *)

skill_patterns ==
  <<
    \* line 374: Python | JavaScript | Java | C++ | C# | Go | Rust | Swift | Kotlin | PHP | Ruby | Scala | TypeScript
    << <<"P","y","t","h","o","n">>,
       <<"J","a","v","a","S","c","r","i","p","t">>,
       <<"J","a","v","a">>,
       <<"C","+","+">>,
       <<"C","#">>,
       <<"G","o">>,
       <<"R","u","s","t">>,
       <<"S","w","i","f","t">>,
       <<"K","o","t","l","i","n">>,
       <<"P","H","P">>,
       <<"R","u","b","y">>,
       <<"S","c","a","l","a">>,
       <<"T","y","p","e","S","c","r","i","p","t">> >>,
    \* line 376: React | Angular | Vue | Node.js | Nodejs | Express | Django | Flask | Spring | Laravel | Rails | Next.js | Nextjs | Nuxt
    << <<"R","e","a","c","t">>,
       <<"A","n","g","u","l","a","r">>,
       <<"V","u","e">>,
       <<"N","o","d","e",".","j","s">>,
       <<"N","o","d","e","j","s">>,
       <<"E","x","p","r","e","s","s">>,
       <<"D","j","a","n","g","o">>,
       <<"F","l","a","s","k">>,
       <<"S","p","r","i","n","g">>,
       <<"L","a","r","a","v","e","l">>,
       <<"R","a","i","l","s">>,
       <<"N","e","x","t",".","j","s">>,
       <<"N","e","x","t","j","s">>,
       <<"N","u","x","t">> >>,
    \* line 378: AWS | Azure | GCP | Docker | Kubernetes | Jenkins | Git | Linux | Windows | macOS | Terraform | Ansible
    << <<"A","W","S">>,
       <<"A","z","u","r","e">>,
       <<"G","C","P">>,
       <<"D","o","c","k","e","r">>,
       <<"K","u","b","e","r","n","e","t","e","s">>,
       <<"J","e","n","k","i","n","s">>,
       <<"G","i","t">>,
       <<"L","i","n","u","x">>,
       <<"W","i","n","d","o","w","s">>,
       <<"m","a","c","O","S">>,
       <<"T","e","r","r","a","f","o","r","m">>,
       <<"A","n","s","i","b","l","e">> >>,
    \* line 380: PostgreSQL | MySQL | MongoDB | Redis | Elasticsearch | SQLite | Oracle | Cassandra | DynamoDB
    << <<"P","o","s","t","g","r","e","S","Q","L">>,
       <<"M","y","S","Q","L">>,
       <<"M","o","n","g","o","D","B">>,
       <<"R","e","d","i","s">>,
       <<"E","l","a","s","t","i","c","s","e","a","r","c","h">>,
       <<"S","Q","L","i","t","e">>,
       <<"O","r","a","c","l","e">>,
       <<"C","a","s","s","a","n","d","r","a">>,
       <<"D","y","n","a","m","o","D","B">> >>,
    \* line 382: Machine Learning | AI | Data Science | Analytics | Statistics | TensorFlow | PyTorch | Scikit-learn | Pandas | NumPy
    << <<"M","a","c","h","i","n","e"," ","L","e","a","r","n","i","n","g">>,
       <<"A","I">>,
       <<"D","a","t","a"," ","S","c","i","e","n","c","e">>,
       <<"A","n","a","l","y","t","i","c","s">>,
       <<"S","t","a","t","i","s","t","i","c","s">>,
       <<"T","e","n","s","o","r","F","l","o","w">>,
       <<"P","y","T","o","r","c","h">>,
       <<"S","c","i","k","i","t","-","l","e","a","r","n">>,
       <<"P","a","n","d","a","s">>,
       <<"N","u","m","P","y">> >>,
    \* line 384: Agile | Scrum | DevOps | CI/CD | Microservices | REST | GraphQL | API | TDD | BDD
    << <<"A","g","i","l","e">>,
       <<"S","c","r","u","m">>,
       <<"D","e","v","O","p","s">>,
       <<"C","I","/","C","D">>,
       <<"M","i","c","r","o","s","e","r","v","i","c","e","s">>,
       <<"R","E","S","T">>,
       <<"G","r","a","p","h","Q","L">>,
       <<"A","P","I">>,
       <<"T","D","D">>,
       <<"B","D","D">> >>,
    \* line 386: HTML | CSS | SASS | LESS | Tailwind | Bootstrap | Webpack | Babel | Jest | Cypress | Selenium
    << <<"H","T","M","L">>,
       <<"C","S","S">>,
       <<"S","A","S","S">>,
       <<"L","E","S","S">>,
       <<"T","a","i","l","w","i","n","d">>,
       <<"B","o","o","t","s","t","r","a","p">>,
       <<"W","e","b","p","a","c","k">>,
       <<"B","a","b","e","l">>,
       <<"J","e","s","t">>,
       <<"C","y","p","r","e","s","s">>,
       <<"S","e","l","e","n","i","u","m">> >>,
    \* line 388: GitHub | GitLab | Bitbucket | Jira | Confluence | Slack | Figma | Sketch | VS Code | IntelliJ
    << <<"G","i","t","H","u","b">>,
       <<"G","i","t","L","a","b">>,
       <<"B","i","t","b","u","c","k","e","t">>,
       <<"J","i","r","a">>,
       <<"C","o","n","f","l","u","e","n","c","e">>,
       <<"S","l","a","c","k">>,
       <<"F","i","g","m","a">>,
       <<"S","k","e","t","c","h">>,
       <<"V","S"," ","C","o","d","e">>,
       <<"I","n","t","e","l","l","i","J">> >>,
    \* line 390: React Native | Flutter | Xamarin | Cordova | Ionic | Electron | WebAssembly
    << <<"R","e","a","c","t"," ","N","a","t","i","v","e">>,
       <<"F","l","u","t","t","e","r">>,
       <<"X","a","m","a","r","i","n">>,
       <<"C","o","r","d","o","v","a">>,
       <<"I","o","n","i","c">>,
       <<"E","l","e","c","t","r","o","n">>,
       <<"W","e","b","A","s","s","e","m","b","l","y">> >>,
    \* line 391: Apache | Nginx | Tomcat | IIS | Load Balancer | CDN | DNS | SSL | TLS
    << <<"A","p","a","c","h","e">>,
       <<"N","g","i","n","x">>,
       <<"T","o","m","c","a","t">>,
       <<"I","I","S">>,
       <<"L","o","a","d"," ","B","a","l","a","n","c","e","r">>,
       <<"C","D","N">>,
       <<"D","N","S">>,
       <<"S","S","L">>,
       <<"T","L","S">> >>
  >>

\* the catalog lower-cased once: re.IGNORECASE compares case-insensitively
skill_patterns_lower ==
  [ p \in DOMAIN skill_patterns |->
      [ k \in DOMAIN skill_patterns[p] |-> lower(skill_patterns[p][k]) ] ]

----------------------------------------------------------------------------
(* re.findall(pattern, text, re.IGNORECASE) for a pattern \b(?:a1|a2|..)\b *)

\* \b at position p: between s[p-1] and s[p], one is a word character and
\* the other is not (the outside of the string counts as not a word character)
word_boundary(s, p) ==
  LET before == p > 1 /\ p - 1 <= Len(s) /\ s[p - 1] \in WordChars
      after  == p >= 1 /\ p <= Len(s) /\ s[p] \in WordChars
  IN  before # after

\* the alternative alt (lower-cased) matches the lower-cased text at pos
alt_matches(alt, low, pos) ==
  /\ pos + Len(alt) - 1 <= Len(low)
  /\ \A k \in 1..Len(alt) : low[pos + k - 1] = alt[k]

\* match_len without the closing \b of the pattern
match_len_open_end(alts, s, low, pos) ==
  IF ~ word_boundary(s, pos) THEN 0
  ELSE LET ok == { k \in DOMAIN alts : alt_matches(alts[k], low, pos) }
       IN  IF ok = {} THEN 0
           ELSE Len(alts[CHOOSE k \in ok : \A j \in ok : k <= j])

\* length of the match of \b(?:alts)\b that starts at pos, 0 when none:
\* the first alternative, in order, that matches and is followed by \b
match_len(alts, s, low, pos) ==
  IF ~ word_boundary(s, pos) THEN 0
  ELSE LET ok == { k \in DOMAIN alts :
                     /\ alt_matches(alts[k], low, pos)
                     /\ word_boundary(s, pos + Len(alts[k])) }
       IN  IF ok = {} THEN 0
           ELSE Len(alts[CHOOSE k \in ok : \A j \in ok : k <= j])

\* the non-overlapping matches, scanning left to right
RECURSIVE find_all(_, _, _, _)
find_all(alts, s, low, pos) ==
  IF pos > Len(s) THEN << >>
  ELSE LET m == match_len(alts, s, low, pos)
       IN  IF m = 0 THEN find_all(alts, s, low, pos + 1)
           ELSE << SubSeq(s, pos, pos + m - 1) >>
                  \o find_all(alts, s, low, pos + m)

re_findall(p, s) == find_all(skill_patterns_lower[p], s, lower(s), 1)

----------------------------------------------------------------------------
(* extract_skills_from_text *)

NodeJs   == << "N","o","d","e",".","j","s" >>
NextJs   == << "N","e","x","t",".","j","s" >>
node_js  == << "n","o","d","e",".","j","s" >>
nodejs   == << "n","o","d","e","j","s" >>
next_js  == << "n","e","x","t",".","j","s" >>
nextjs   == << "n","e","x","t","j","s" >>

\* added_skill without the special cases of lines 401-404
added_skill_raw(match) == match

\* added_skill that stores every match in lower case
added_skill_lower(match) == lower(match)

\* lines 401-406: what the loop adds to the set for one match
added_skill(match) ==
  IF lower(match) \in {node_js, nodejs} THEN NodeJs
  ELSE IF lower(match) \in {next_js, nextjs} THEN NextJs
  ELSE match

\* the set built from a single pattern that has all the terms as its
\* alternatives, in the order of the catalog
skills_set_one_pattern(s) ==
  LET all == skill_patterns_lower[1] \o skill_patterns_lower[2]
               \o skill_patterns_lower[3] \o skill_patterns_lower[4]
               \o skill_patterns_lower[5] \o skill_patterns_lower[6]
               \o skill_patterns_lower[7] \o skill_patterns_lower[8]
               \o skill_patterns_lower[9] \o skill_patterns_lower[10]
  IN  { added_skill(m) : m \in Range(find_all(all, s, lower(s), 1)) }

\* lines 394-406: the set built by the two loops
skills_set(s) ==
  UNION { { added_skill(m) : m \in Range(re_findall(p, s)) }
          : p \in DOMAIN skill_patterns }

\* all the orders in which the members of a set can be iterated
RECURSIVE orderings(_)
orderings(S) ==
  IF S = {} THEN { << >> }
  ELSE UNION { { << x >> \o l : l \in orderings(S \ {x}) } : x \in S }

\* list(S) that keeps, of the members that differ only in letter case, the
\* one the iteration meets first
list_of_first_spelling(S) ==
  { LET keep == { i \in DOMAIN l :
                    \A j \in DOMAIN l : j < i => lower(l[j]) # lower(l[i]) }
        F[i \in 0..Len(l)] ==
          IF i = 0 THEN << >>
          ELSE IF i \in keep THEN Append(F[i - 1], l[i]) ELSE F[i - 1]
    IN  F[Len(l)]
    : l \in orderings(S) }

\* one order of the members of a set, and the orders that start it at
\* another member
RECURSIVE some_order(_)
some_order(S) ==
  IF S = {} THEN << >>
  ELSE LET x == CHOOSE y \in S : TRUE IN << x >> \o some_order(S \ {x})

rotations(l) ==
  { SubSeq(l, i, Len(l)) \o SubSeq(l, 1, i - 1) : i \in 1..Len(l) }

\* the sets of at most this many members are iterated in every order, the
\* larger ones in the rotations of one order
MaxPermuted == 4

\* list(S) of a set of str: each member once, in hash order, which differs
\* from one interpreter run to the next
list_of(S) ==
  IF Cardinality(S) <= MaxPermuted THEN orderings(S)
  ELSE rotations(some_order(S))

\* line 397: re.findall(pattern, None) raises TypeError (expected string or
\* bytes-like object); nothing in lines 362-396 looks at text before
extract_raises(s) == s = None

\* line 408: the lists extract_skills_from_text(s) can return
extract_skills_from_text(s) == list_of(skills_set(s))

----------------------------------------------------------------------------
(* analyze_job_match *)

\* str.strip(): leading and trailing white space removed
RECURSIVE lstrip(_)
lstrip(s) ==
  IF s # << >> /\ Head(s) \in WhiteSpace THEN lstrip(Tail(s)) ELSE s

RECURSIVE rstrip(_)
rstrip(s) ==
  IF s # << >> /\ s[Len(s)] \in WhiteSpace
  THEN rstrip(SubSeq(s, 1, Len(s) - 1)) ELSE s

strip(s) == rstrip(lstrip(s))

\* lines 432-442: the variations table, as (key, value) pairs
variations ==
  { << node_js, nodejs >>,
    << nodejs, nodejs >>,
    << next_js, nextjs >>,
    << nextjs, nextjs >>,
    << << "c","+","+" >>, << "c","p","p" >> >>,
    << << "c","#" >>, << "c","s","h","a","r","p" >> >>,
    << << "m","a","c","h","i","n","e"," ","l","e","a","r","n","i","n","g" >>,
       << "m","l" >> >>,
    << << "d","a","t","a"," ","s","c","i","e","n","c","e" >>, << "d","s" >> >>,
    << << "a","r","t","i","f","i","c","i","a","l"," ",
          "i","n","t","e","l","l","i","g","e","n","c","e" >>,
       << "a","i" >> >> }

\* normalize_skill without the strip() of line 430
normalize_skill_no_strip(skill) ==
  LET skill_lower == lower(skill)
      hit == { v \in variations : v[1] = skill_lower }
  IN  IF hit = {} THEN skill_lower ELSE (CHOOSE v \in hit : TRUE)[2]

\* lines 428-443
normalize_skill(skill) ==
  LET skill_lower == strip(lower(skill))
      hit == { v \in variations : v[1] = skill_lower }
  IN  IF hit = {} THEN skill_lower ELSE (CHOOSE v \in hit : TRUE)[2]

\* a dict that keeps the first entry of l for a key
normalized_dict_first_wins(l) ==
  LET key == [ i \in DOMAIN l |-> normalize_skill(l[i]) ]
      first(k) == CHOOSE i \in DOMAIN l :
                    key[i] = k /\ \A j \in DOMAIN l : key[j] = k => i <= j
  IN  [ k \in Range(key) |-> l[first(k)] ]

\* {normalize_skill(skill): skill for skill in l}: a later entry of l
\* overwrites an earlier one that has the same key
normalized_dict(l) ==
  LET key == [ i \in DOMAIN l |-> normalize_skill(l[i]) ]
      last(k) == CHOOSE i \in DOMAIN l :
                   key[i] = k /\ \A j \in DOMAIN l : key[j] = k => j <= i
  IN  [ k \in Range(key) |-> l[last(k)] ]

\* lines 420-425: the job's skills, from the description and each requirement
job_skills_of(description, requirements) ==
  skills_set(description)
    \cup UNION { skills_set(requirements[i]) : i \in DOMAIN requirements }

\* the intersection of line 449 forgotten
matching_normalized_all_user(user_n, job_n) == DOMAIN user_n

\* line 449
matching_normalized(user_n, job_n) == DOMAIN user_n \cap DOMAIN job_n

\* the difference of line 453 forgotten
missing_normalized_all_job(user_n, job_n) == DOMAIN job_n

\* line 453
missing_normalized(user_n, job_n) == DOMAIN job_n \ DOMAIN user_n

\* the display strings taken from the job's dict instead of the candidate's
top_keywords_from_job(user_n, job_n, order) ==
  [ i \in DOMAIN order |-> job_n[order[i]] ]

\* line 450: the display strings of the matching keys, in the order given
top_keywords_of(user_n, job_n, order) ==
  [ i \in DOMAIN order |-> user_n[order[i]] ]

\* line 454
missing_skills_of(user_n, job_n, order) ==
  [ i \in DOMAIN order |-> job_n[order[i]] ]

\* l[:n + 1]
py_slice_through(l, n) == SubSeq(l, 1, IF n + 1 < Len(l) THEN n + 1 ELSE Len(l))

\* l[:n] of Python, for any integer n
py_slice_to(l, n) ==
  IF n >= 0 THEN SubSeq(l, 1, IF n < Len(l) THEN n ELSE Len(l))
  ELSE SubSeq(l, 1, Len(l) + n)

\* lines 457-458: at most this many entries of each list are returned
TopLimit == 10

\* lines 421-425: analyze_job_match hands job_description and each entry of
\* job_requirements to extract_skills_from_text and iterates over
\* job_requirements: a None in any of these places raises TypeError
analyze_raises(description, requirements) ==
  \/ extract_raises(description)
  \/ requirements = None
  \/ \E i \in DOMAIN requirements : extract_raises(requirements[i])

\* lines 428-459: the runs analyze_job_match can make once it has the job's
\* skills js, each with its locals and the dict it returns.  The job's
\* skills are a set, and so are the matching and the missing keys: each is
\* iterated in hash order, any order in the model.
analyze_rest(skills, js) ==
  LET user_n == normalized_dict(skills)
      run(job_n, m_order, x_order) ==
        LET tk == top_keywords_of(user_n, job_n, m_order)
            ms == missing_skills_of(user_n, job_n, x_order)
        IN  [ job_skills |-> js,
              top_keywords |-> tk,
              missing_skills |-> ms,
              result |-> [ top_keywords |-> py_slice_to(tk, TopLimit),
                           missing_skills |-> py_slice_to(ms, TopLimit) ] ]
  IN  UNION { UNION { { run(job_n, m_order, x_order) :
                          m_order \in list_of(matching_normalized(user_n, job_n)),
                          x_order \in list_of(missing_normalized(user_n, job_n)) }
                      : job_n \in { normalized_dict(job_order) } }
              : job_order \in list_of(js) }

\* lines 411-459: the runs analyze_job_match can make on its arguments
analyze_job_match(skills, description, requirements) ==
  analyze_rest(skills, job_skills_of(description, requirements))

----------------------------------------------------------------------------
(* Inputs.  A text is the concatenation of at most MaxPieces pieces, so    *)
(* that catalog terms occur alone, next to punctuation, inside longer      *)
(* words, in several casings and in several spellings.                     *)

MaxPieces == 3

Pieces ==
  { << "P","y","t","h","o","n" >>,
    << "p","y","t","h","o","n" >>,
    << "D","o","c","k","e","r" >>,
    << "C","+","+" >>,
    << "C","#" >>,
    << "J","a","v","a" >>,
    << "S","c","r","i","p","t" >>,
    << "N","o","d","e" >>,
    << ".","j","s" >>,
    << "j","s" >>,
    << "R","e","a","c","t" >>,
    << "N","a","t","i","v","e" >>,
    << " " >>,
    << "x" >> }

RECURSIVE concat_pieces(_, _)
concat_pieces(P, n) ==
  IF n = 0 THEN { << >> }
  ELSE LET shorter == concat_pieces(P, n - 1)
       IN  shorter \cup { t \o p : t \in shorter, p \in P }

Texts == concat_pieces(Pieces, MaxPieces)

\* the lists of at most n members of S
RECURSIVE lists_upto(_, _)
lists_upto(S, n) ==
  IF n = 0 THEN { << >> }
  ELSE LET shorter == lists_upto(S, n - 1)
       IN  shorter \cup { Append(l, x) : l \in shorter, x \in S }

\* job descriptions for analyze_job_match
MaxJobPieces == 2

JobPieces ==
  { << "R","e","a","c","t" >>,
    << "p","y","t","h","o","n" >>,
    << " " >> }

JobTexts == concat_pieces(JobPieces, MaxJobPieces)

\* requirement strings
MaxRequirements == 1

RequirementTexts ==
  { << "P","y","t","h","o","n" >>,
    << "n","o","d","e","j","s" >> }

\* the candidate's skills
MaxUserSkills == 2

UserSkillPool ==
  { << "r","e","a","c","t" >>,
    << "R","e","a","c","t"," " >>,
    << "N","o","d","e",".","j","s" >>,
    << "P","y","t","h","o","n" >> }

\* a job that names more skills than analyze_job_match returns, and
\* candidates who have all but one of them, or one of them
ManyTerms ==
  << skill_patterns[1][1], skill_patterns[1][3], skill_patterns[1][6],
     skill_patterns[1][7], skill_patterns[1][8], skill_patterns[1][9],
     skill_patterns[1][10], skill_patterns[1][11], skill_patterns[1][12],
     skill_patterns[2][1], skill_patterns[2][2], skill_patterns[2][3] >>

RECURSIVE join_words(_)
join_words(l) ==
  IF l = << >> THEN << >>
  ELSE IF Len(l) = 1 THEN l[1]
  ELSE l[1] \o << " " >> \o join_words(Tail(l))

\* texts that hold two spellings of one skill, or a skill whose name
\* starts with the name of another
SpellingTexts ==
  { join_words(<< NodeJs, nodejs >>),
    join_words(<< << "R","e","a","c","t" >>, << "N","a","t","i","v","e" >>,
                  << "R","e","a","c","t" >> >>) }

LongJobText == join_words(ManyTerms)

LongUserSkills ==
  { [ i \in 1..(Len(ManyTerms) - 1) |-> lower(ManyTerms[i]) ],
    << ManyTerms[Len(ManyTerms)] >> }

IdleExtract == text = << >> /\ skills1 = None /\ skills2 = None

IdleAnalyze ==
  /\ user_skills = << >>
  /\ job_description = << >>
  /\ job_requirements = << >>
  /\ job_skills = {}
  /\ top_keywords = << >>
  /\ missing_skills = << >>
  /\ analysis = None

IdleCosine == vec_a = << >> /\ vec_b = << >> /\ cos_result = None

IdleRank ==
  /\ resume_embedding = << >>
  /\ top_n = 0
  /\ jobs = << >>
  /\ idx = 0
  /\ job_matches = << >>
  /\ response = None

IdleNormalize == norm_in = << >> /\ norm_out = << >> /\ norm_again = << >>

IdleApps ==
  /\ users_table = {}
  /\ applications = << >>
  /\ unique_constraint = FALSE
  /\ requests = << >>
  /\ marks = << >>
  /\ now = 0

IdleCalls == calls = << >>

IdleManager ==
  processes = {} /\ pid_file = 0 /\ spawned = 0 /\ manager_calls = << >>

IdleRun == worker_run = None

IdleRest == IdleCalls /\ IdleManager /\ IdleRun

----------------------------------------------------------------------------
(* Two calls of extract_skills_from_text on one text *)

InitExtract ==
  /\ pc = "extract"
  /\ (text \in Texts \/ text \in SpellingTexts \/ text = None)
  /\ skills1 = None
  /\ skills2 = None
  /\ IdleAnalyze /\ IdleCosine /\ IdleRank /\ IdleNormalize /\ IdleApps
  /\ IdleRest

\* the first call: it returns a list, or the TypeError of line 397 leaves it
ExtractFirst ==
  /\ pc = "extract"
  /\ IF extract_raises(text)
     THEN pc' = "raised" /\ skills1' = skills1
     ELSE pc' = "called once" /\ skills1' \in extract_skills_from_text(text)
  /\ UNCHANGED << text, skills2, analyze_vars, cosine_vars, rank_vars,
                  norm_vars, app_vars, call_vars, manager_vars, run_vars >>

ExtractSecond ==
  /\ pc = "called once"
  /\ skills2' \in extract_skills_from_text(text)
  /\ pc' = "called twice"
  /\ UNCHANGED << text, skills1, analyze_vars, cosine_vars, rank_vars,
                  norm_vars, app_vars, call_vars, manager_vars, run_vars >>

NextExtract == ExtractFirst \/ ExtractSecond

SpecExtract == InitExtract /\ [][NextExtract]_vars

----------------------------------------------------------------------------
(* normalize_skill on two skill strings, and again on the keys it returned. *)
(* A skill string is a name with at most MaxPad white-space characters      *)
(* before it and after it.                                                  *)

MaxPad == 1

PadChars == { " ", "\t" }

Pads == UNION { [ 1..n -> PadChars ] : n \in 0..MaxPad }

SkillNames ==
  { NodeJs, nodejs, NextJs,
    << "C","+","+" >>,
    << "c","#" >>,
    << "c","p","p" >>,
    << "M","a","c","h","i","n","e"," ","L","e","a","r","n","i","n","g" >>,
    << "M","L" >>,
    << "d","a","t","a"," ","s","c","i","e","n","c","e" >>,
    << "A","r","t","i","f","i","c","i","a","l"," ",
       "I","n","t","e","l","l","i","g","e","n","c","e" >>,
    << "A","I" >>,
    << "P","y","t","h","o","n" >>,
    << "p","y","t","h","o","n" >>,
    << "R","e","a","c","t"," ","N","a","t","i","v","e" >> }

PaddedSkillNames ==
  { before \o name \o after : before \in Pads, name \in SkillNames, after \in Pads }

InitNormalize ==
  /\ pc = "normalize"
  /\ norm_in \in PaddedSkillNames \X SkillNames
  /\ norm_out = << >>
  /\ norm_again = << >>
  /\ IdleExtract /\ IdleAnalyze /\ IdleCosine /\ IdleRank /\ IdleApps
  /\ IdleRest

\* lines 445-446: normalize_skill(skill) for each skill
NormalizeSkills ==
  /\ pc = "normalize"
  /\ norm_out' = << normalize_skill(norm_in[1]), normalize_skill(norm_in[2]) >>
  /\ pc' = "normalized"
  /\ UNCHANGED << norm_in, norm_again, extract_vars, analyze_vars, cosine_vars,
                  rank_vars, app_vars, call_vars, manager_vars, run_vars >>

\* normalize_skill applied to the keys
NormalizeKeys ==
  /\ pc = "normalized"
  /\ norm_again' = << normalize_skill(norm_out[1]), normalize_skill(norm_out[2]) >>
  /\ pc' = "normalized twice"
  /\ UNCHANGED << norm_in, norm_out, extract_vars, analyze_vars, cosine_vars,
                  rank_vars, app_vars, call_vars, manager_vars, run_vars >>

NextNormalize == NormalizeSkills \/ NormalizeKeys

SpecNormalize == InitNormalize /\ [][NextNormalize]_vars

----------------------------------------------------------------------------
(* One call of analyze_job_match *)

InitAnalyze ==
  /\ pc = "analyze"
  /\ \/ /\ user_skills \in lists_upto(UserSkillPool, MaxUserSkills)
        /\ (job_description \in JobTexts \/ job_description = None)
        /\ \/ job_requirements \in lists_upto(RequirementTexts, MaxRequirements)
           \/ job_requirements = None
           \/ job_requirements = << None >>
     \/ /\ user_skills \in LongUserSkills
        /\ job_description = LongJobText
        /\ job_requirements = << >>
  /\ job_skills = {}
  /\ top_keywords = << >>
  /\ missing_skills = << >>
  /\ analysis = None
  /\ IdleExtract /\ IdleCosine /\ IdleRank /\ IdleNormalize /\ IdleApps
  /\ IdleRest

\* the call: it returns its dict, or a TypeError leaves it
AnalyzeJobMatch ==
  /\ pc = "analyze"
  /\ IF analyze_raises(job_description, job_requirements)
     THEN /\ pc' = "analyze raised"
          /\ UNCHANGED << job_skills, top_keywords, missing_skills, analysis >>
     ELSE /\ pc' = "analyzed"
          /\ \E r \in analyze_job_match(user_skills, job_description,
                                         job_requirements) :
               /\ job_skills' = r.job_skills
               /\ top_keywords' = r.top_keywords
               /\ missing_skills' = r.missing_skills
               /\ analysis' = r.result
  /\ UNCHANGED << user_skills, job_description, job_requirements,
                  extract_vars, cosine_vars, rank_vars, norm_vars, app_vars,
                  call_vars, manager_vars, run_vars >>

NextAnalyze == AnalyzeJobMatch

SpecAnalyze == InitAnalyze /\ [][NextAnalyze]_vars

----------------------------------------------------------------------------
(* cosine_similarity.  A float is modelled by an integer, and the quotient *)
(* dot / (norm_a * norm_b) exactly, by the pair (dot, sq) that stands for  *)
(* dot / sqrt(sq), with sq = |a|^2 * |b|^2.                                *)

RECURSIVE dot_product(_, _)
dot_product(a, b) ==
  IF a = << >> THEN 0
  ELSE Head(a) * Head(b) + dot_product(Tail(a), Tail(b))

\* the square of np.linalg.norm
norm_squared(a) == dot_product(a, a)

\* cosine_similarity without the length check of line 344: the shorter
\* length decides, as zip() would
cosine_similarity_zip(a, b) ==
  LET n == IF Len(a) < Len(b) THEN Len(a) ELSE Len(b)
      x == SubSeq(a, 1, n)
      y == SubSeq(b, 1, n)
  IN  IF norm_squared(x) = 0 \/ norm_squared(y) = 0
      THEN [ kind |-> "value", dot |-> 0, sq |-> 1 ]
      ELSE [ kind |-> "value",
             dot |-> dot_product(x, y),
             sq |-> norm_squared(x) * norm_squared(y) ]

\* cosine_similarity without the test of line 356: 0/0 is nan in numpy
cosine_similarity_no_zero_test(a, b) ==
  IF a = None \/ b = None THEN [ kind |-> "TypeError" ]
  ELSE IF Len(a) # Len(b) THEN [ kind |-> "ValueError" ]
  ELSE IF norm_squared(a) = 0 \/ norm_squared(b) = 0 THEN [ kind |-> "nan" ]
  ELSE [ kind |-> "value",
         dot |-> dot_product(a, b),
         sq |-> norm_squared(a) * norm_squared(b) ]

\* cosine_similarity that divides by norm_a only
cosine_similarity_one_norm(a, b) ==
  IF a = None \/ b = None THEN [ kind |-> "TypeError" ]
  ELSE IF Len(a) # Len(b) THEN [ kind |-> "ValueError" ]
  ELSE IF norm_squared(a) = 0 \/ norm_squared(b) = 0
       THEN [ kind |-> "value", dot |-> 0, sq |-> 1 ]
  ELSE [ kind |-> "value", dot |-> dot_product(a, b), sq |-> norm_squared(a) ]

\* lines 337-359: a ValueError, a TypeError (len of None) or the value
cosine_similarity(a, b) ==
  IF a = None \/ b = None THEN [ kind |-> "TypeError" ]
  ELSE IF Len(a) # Len(b) THEN [ kind |-> "ValueError" ]
  ELSE IF norm_squared(a) = 0 \/ norm_squared(b) = 0
       THEN [ kind |-> "value", dot |-> 0, sq |-> 1 ]
  ELSE [ kind |-> "value",
         dot |-> dot_product(a, b),
         sq |-> norm_squared(a) * norm_squared(b) ]

\* the largest k in lo..hi with (k - 1/2) * sqrt(sq) <= 1000 * |dot|
RECURSIVE nearest_thousandth(_, _, _, _)
nearest_thousandth(lo, hi, d, sq) ==
  IF lo = hi THEN lo
  ELSE LET mid == (lo + hi + 1) \div 2
       IN  IF (2 * mid - 1) * (2 * mid - 1) * sq <= 4000000 * d * d
           THEN nearest_thousandth(mid, hi, d, sq)
           ELSE nearest_thousandth(lo, mid - 1, d, sq)

\* line 799: round(similarity_score, 3), in thousandths
round3(c) ==
  LET k == nearest_thousandth(0, 1000, c.dot, c.sq)
  IN  IF c.dot < 0 THEN 0 - k ELSE k

----------------------------------------------------------------------------
(* match_jobs.  A row of the jobs table is a record; its id is its         *)
(* position in the table.  raw_is_dict: the raw column holds a JSON        *)
(* object; has_embedding: that object has the key 'embedding';             *)
(* embedding_is_null: the key holds a JSON null instead of a list.         *)

embedding_of(job) == IF job.embedding_is_null THEN None ELSE job.embedding

\* line 785: raw_data.get('description', '') is '' when the key is missing
\* and None when the key holds a JSON null
description_of(job) == IF job.description_is_null THEN None ELSE job.description

\* score_job with a mismatch scored 0.0 instead of skipped
score_job_silent_zero(embedding, job) ==
  IF ~ job.raw_is_dict \/ ~ job.has_embedding THEN [ kind |-> "skip" ]
  ELSE LET c == cosine_similarity(embedding, embedding_of(job))
       IN  IF c.kind = "ValueError" THEN [ kind |-> "scored", score |-> 0 ]
           ELSE IF c.kind = "TypeError" THEN [ kind |-> "HTTP500" ]
           ELSE [ kind |-> "scored", score |-> round3(c) ]

\* lines 771-782 and 799: what the loop does with one row
score_job(embedding, job) ==
  IF ~ job.raw_is_dict \/ ~ job.has_embedding THEN [ kind |-> "skip" ]
  ELSE LET c == cosine_similarity(embedding, embedding_of(job))
       IN  IF c.kind = "ValueError" THEN [ kind |-> "skip" ]
           ELSE IF c.kind = "TypeError" THEN [ kind |-> "HTTP500" ]
           ELSE [ kind |-> "scored", score |-> round3(c) ]

\* line 807: list.sort(key=score, reverse=True) is stable: of two entries
\* with equal scores the one that was first stays first
\* a sort that is not stable: an entry goes before the entries that have
\* its score
RECURSIVE insert_desc_before_equal(_, _)
insert_desc_before_equal(sorted, m) ==
  IF sorted = << >> THEN << m >>
  ELSE IF Head(sorted).score > m.score
       THEN << Head(sorted) >> \o insert_desc_before_equal(Tail(sorted), m)
       ELSE << m >> \o sorted

RECURSIVE insert_desc(_, _)
insert_desc(sorted, m) ==
  IF sorted = << >> THEN << m >>
  ELSE IF Head(sorted).score >= m.score
       THEN << Head(sorted) >> \o insert_desc(Tail(sorted), m)
       ELSE << m >> \o sorted

RECURSIVE sort_by_score_desc(_)
sort_by_score_desc(l) ==
  IF l = << >> THEN << >>
  ELSE insert_desc(sort_by_score_desc(SubSeq(l, 1, Len(l) - 1)), l[Len(l)])

\* the slice taken one entry too long
top_matches_one_more(sorted, n) == py_slice_to(sorted, n + 1)

\* line 808
top_matches_of(sorted, n) == py_slice_to(sorted, n)

\* the count taken after the slice instead of before
total_jobs_searched_after_slice(matches, top) == Len(top)

\* line 814
total_jobs_searched_of(matches, top) == Len(matches)

----------------------------------------------------------------------------
(* Inputs of cosine_similarity and match_jobs *)

MaxDim == 2

Components == { -1, 0, 1, 2 }

Vectors == lists_upto(Components, MaxDim)

MaxJobs == 3

Python == << "P","y","t","h","o","n" >>

JobRow(e, d) ==
  [ raw_is_dict |-> TRUE, has_embedding |-> TRUE, embedding_is_null |-> FALSE,
    embedding |-> e, description_is_null |-> FALSE, description |-> d,
    requirements |-> << >> ]

JobPool ==
  { [ JobRow(<< >>, << >>) EXCEPT !.raw_is_dict = FALSE ],
    [ JobRow(<< >>, Python) EXCEPT !.has_embedding = FALSE ],
    [ JobRow(<< >>, Python) EXCEPT !.embedding_is_null = TRUE ],
    JobRow(<< >>, Python),
    JobRow(<< 1 >>, Python),
    JobRow(<< 1, 0 >>, Python),
    JobRow(<< 1, 1 >>, << >>),
    JobRow(<< 8, 7 >>, << >>),
    JobRow(<< 0, 0 >>, Python),
    JobRow(<< -1, 0 >>, << >>),
    JobRow(<< 8, 9 >>, << >>),
    [ JobRow(<< 1, 0 >>, << >>) EXCEPT !.description_is_null = TRUE ] }

ResumeEmbeddings == { << 1, 0 >>, << 1, 1 >> }

TopNValues == { -2, -1, 0, 1, 2, 5 }

----------------------------------------------------------------------------
(* One call of cosine_similarity *)

InitCosine ==
  /\ pc = "cosine"
  /\ vec_a \in Vectors
  /\ vec_b \in Vectors
  /\ cos_result = None
  /\ IdleExtract /\ IdleAnalyze /\ IdleRank /\ IdleNormalize /\ IdleApps
  /\ IdleRest

CosineSimilarity ==
  /\ pc = "cosine"
  /\ cos_result' = cosine_similarity(vec_a, vec_b)
  /\ pc' = "returned"
  /\ UNCHANGED << vec_a, vec_b, extract_vars, analyze_vars, rank_vars,
                  norm_vars, app_vars, call_vars, manager_vars, run_vars >>

NextCosine == CosineSimilarity

SpecCosine == InitCosine /\ [][NextCosine]_vars

----------------------------------------------------------------------------
(* One request to POST /match-jobs, with the embedding in the request *)

InitRank ==
  /\ pc = "match_jobs"
  /\ user_skills \in { << Python >> }
  /\ resume_embedding \in ResumeEmbeddings
  /\ top_n \in TopNValues
  /\ jobs \in lists_upto(JobPool, MaxJobs)
  /\ idx = 0
  /\ job_matches = << >>
  /\ response = None
  /\ job_description = << >>
  /\ job_requirements = << >>
  /\ job_skills = {}
  /\ top_keywords = << >>
  /\ missing_skills = << >>
  /\ analysis = None
  /\ IdleExtract /\ IdleCosine /\ IdleNormalize /\ IdleApps
  /\ IdleRest

rank_unchanged ==
  UNCHANGED << user_skills, job_description, job_requirements, job_skills,
               top_keywords, missing_skills, analysis, resume_embedding,
               top_n, jobs, extract_vars, cosine_vars, norm_vars, app_vars,
               call_vars, manager_vars, run_vars >>

\* lines 757-767: no row at all is answered at once
MatchJobsQuery ==
  /\ pc = "match_jobs"
  /\ IF jobs = << >>
     THEN /\ response' = [ kind |-> "ok", matches |-> << >>,
                           total_jobs_searched |-> 0 ]
          /\ pc' = "done"
          /\ idx' = idx
     ELSE /\ response' = response
          /\ pc' = "loop"
          /\ idx' = 1
  /\ job_matches' = job_matches
  /\ rank_unchanged

\* lines 769-804: one iteration of the loop
MatchJobsRow ==
  /\ pc = "loop"
  /\ idx <= Len(jobs)
  /\ LET job == jobs[idx]
         out == score_job(resume_embedding, job)
     IN  CASE out.kind = "skip" ->
                /\ idx' = idx + 1
                /\ UNCHANGED << pc, job_matches, response >>
           [] out.kind = "HTTP500" ->
                /\ response' = [ kind |-> "HTTP500" ]
                /\ pc' = "done"
                /\ UNCHANGED << idx, job_matches >>
           [] out.kind = "scored" ->
                IF analyze_raises(description_of(job), job.requirements)
                THEN \* lines 820-822: the TypeError becomes HTTP 500
                     /\ response' = [ kind |-> "HTTP500" ]
                     /\ pc' = "done"
                     /\ UNCHANGED << idx, job_matches >>
                ELSE /\ \E r \in analyze_job_match(user_skills,
                                                    description_of(job),
                                                    job.requirements) :
                          job_matches' =
                            Append(job_matches,
                                   [ job_id |-> idx,
                                     score |-> out.score,
                                     top_keywords |-> r.result.top_keywords,
                                     missing_skills |-> r.result.missing_skills ])
                     /\ idx' = idx + 1
                     /\ UNCHANGED << pc, response >>
  /\ rank_unchanged

\* lines 806-816: sort, slice and answer
MatchJobsReturn ==
  /\ pc = "loop"
  /\ idx > Len(jobs)
  /\ job_matches' = sort_by_score_desc(job_matches)
  /\ LET top == top_matches_of(job_matches', top_n)
     IN  response' = [ kind |-> "ok", matches |-> top,
                       total_jobs_searched |->
                         total_jobs_searched_of(job_matches', top) ]
  /\ pc' = "done"
  /\ idx' = idx
  /\ rank_unchanged

NextRank == MatchJobsQuery \/ MatchJobsRow \/ MatchJobsReturn

SpecRank == InitRank /\ [][NextRank]_vars

----------------------------------------------------------------------------
(* queue_applications.  Each database call of the handler is one step: the *)
(* steps of two requests interleave when the application is served by more *)
(* than one process.  The schema of the applications table is not part of  *)
(* the sources: whether it has a unique constraint on (user_id, job_id) is *)
(* chosen in the initial state.  uuid.uuid4() is modelled by the pair      *)
(* (request, position in the batch).                                       *)

\* lines 1741-1753: uuid.UUID(id) raises ValueError for this id
is_uuid(id) == id # "not-a-uuid"

\* the jobs table: the rows the handler can select at line 1789, each with
\* whether raw.url is a non-blank string (lines 1796-1797)
jobs_rows == [ j \in {"j1", "j2", "j3"} |-> [ has_url |-> j # "j3" ] ]

\* the attempt_meta of a freshly queued application (lines 1849-1854)
queued_meta ==
  [ is_null |-> FALSE, queued_by |-> "user_selection",
    submission_method |-> "none", manually_submitted_at |-> 0 ]

no_response == [ code |-> 0, queued_count |-> 0 ]

\* lines 1741-1823: the answer of the validations, 0 when they all pass
validation_code(user_id, job_ids) ==
  IF ~ is_uuid(user_id) THEN 400
  ELSE IF \E i \in DOMAIN job_ids : ~ is_uuid(job_ids[i]) THEN 400
  ELSE IF \E i \in DOMAIN job_ids : job_ids[i] \notin DOMAIN jobs_rows THEN 404
  ELSE IF \E i \in DOMAIN job_ids : ~ jobs_rows[job_ids[i]].has_url THEN 400
  ELSE 0

\* lines 1826-1827: the job_ids of the request for which the user has a row
existing_job_ids_of(rows, user_id, job_ids) ==
  { rows[i].job_id :
      i \in { k \in DOMAIN rows :
                rows[k].user_id = user_id /\ rows[k].job_id \in Range(job_ids) } }

\* line 1830: the list comprehension keeps the order and the repetitions
RECURSIVE new_job_ids_of(_, _)
new_job_ids_of(job_ids, existing) ==
  IF job_ids = << >> THEN << >>
  ELSE IF Head(job_ids) \in existing THEN new_job_ids_of(Tail(job_ids), existing)
  ELSE << Head(job_ids) >> \o new_job_ids_of(Tail(job_ids), existing)

\* lines 1838-1856: one record for each entry of new_job_ids
applications_to_create(r, user_id, new_job_ids) ==
  [ k \in DOMAIN new_job_ids |->
      [ id |-> << r, k >>, user_id |-> user_id, job_id |-> new_job_ids[k],
        status |-> "draft", attempt_meta |-> queued_meta ] ]

\* a unique constraint on (user_id, job_id) rejects this batch
violates_unique(rows, batch) ==
  \/ \E i \in DOMAIN batch, k \in DOMAIN rows :
       batch[i].user_id = rows[k].user_id /\ batch[i].job_id = rows[k].job_id
  \/ \E i, j \in DOMAIN batch :
       i # j /\ batch[i].user_id = batch[j].user_id
             /\ batch[i].job_id = batch[j].job_id

MaxQueueRequests == 2

MaxJobIds == 2

QueueUsers == { "u1", "u2" }

\* the job_ids of a request: lists of jobs that can be queued, and lists
\* with an id that fails a validation
QueueJobIds ==
  lists_upto({"j1", "j2"}, MaxJobIds)
    \cup { << "j3" >>, << "j4" >>, << "not-a-uuid" >>, << "j1", "j4" >> }

QueueInputs ==
  { [ user_id |-> u, job_ids |-> l ] : u \in QueueUsers, l \in QueueJobIds }
    \cup { [ user_id |-> "not-a-uuid", job_ids |-> << "j1" >> ] }

InitQueue ==
  /\ pc = "queue"
  /\ users_table = {}
  /\ applications = << >>
  /\ unique_constraint \in BOOLEAN
  /\ \E inputs \in [ 1..MaxQueueRequests -> QueueInputs ] :
       requests = [ r \in 1..MaxQueueRequests |->
                      [ user_id |-> inputs[r].user_id,
                        job_ids |-> inputs[r].job_ids,
                        pc |-> "validate",
                        existing_job_ids |-> {},
                        new_job_ids |-> << >>,
                        response |-> no_response ] ]
  /\ marks = << >>
  /\ now = 0
  /\ IdleExtract /\ IdleAnalyze /\ IdleCosine /\ IdleRank /\ IdleNormalize
  /\ IdleRest

queue_unchanged ==
  UNCHANGED << pc, unique_constraint, marks, now, extract_vars, analyze_vars,
               cosine_vars, rank_vars, norm_vars, call_vars, manager_vars,
               run_vars >>

\* lines 1738-1823: the validations, and the users row created if missing
QueueValidate(r) ==
  /\ requests[r].pc = "validate"
  /\ LET q == requests[r]
         code == validation_code(q.user_id, q.job_ids)
     IN  /\ users_table' =
              IF is_uuid(q.user_id) /\ \A i \in DOMAIN q.job_ids : is_uuid(q.job_ids[i])
              THEN users_table \cup { q.user_id } ELSE users_table
         /\ requests' =
              [ requests EXCEPT ![r] =
                  IF code = 0 THEN [ q EXCEPT !.pc = "check" ]
                  ELSE [ q EXCEPT !.pc = "done",
                                  !.response = [ code |-> code, queued_count |-> 0 ] ] ]
  /\ UNCHANGED applications
  /\ queue_unchanged

\* lines 1825-1833: the select of the existing applications, and the 409
QueueCheckExisting(r) ==
  /\ requests[r].pc = "check"
  /\ LET q == requests[r]
         existing == existing_job_ids_of(applications, q.user_id, q.job_ids)
         new == new_job_ids_of(q.job_ids, existing)
     IN  requests' =
           [ requests EXCEPT ![r] =
               IF new = << >>
               THEN [ q EXCEPT !.pc = "done", !.existing_job_ids = existing,
                               !.response = [ code |-> 409, queued_count |-> 0 ] ]
               ELSE [ q EXCEPT !.pc = "insert", !.existing_job_ids = existing,
                               !.new_job_ids = new ] ]
  /\ UNCHANGED << users_table, applications >>
  /\ queue_unchanged

\* lines 1835-1888: the batch insert and the answer; an insert the table
\* rejects raises, which lines 1892-1894 turn into HTTP 500
QueueInsert(r) ==
  /\ requests[r].pc = "insert"
  /\ LET q == requests[r]
         batch == applications_to_create(r, q.user_id, q.new_job_ids)
     IN  IF unique_constraint /\ violates_unique(applications, batch)
         THEN /\ applications' = applications
              /\ requests' =
                   [ requests EXCEPT ![r] =
                       [ q EXCEPT !.pc = "done",
                                  !.response = [ code |-> 500, queued_count |-> 0 ] ] ]
         ELSE /\ applications' = applications \o batch
              /\ requests' =
                   [ requests EXCEPT ![r] =
                       [ q EXCEPT !.pc = "done",
                                  !.response = [ code |-> 200,
                                                 queued_count |-> Len(batch) ] ] ]
  /\ UNCHANGED users_table
  /\ queue_unchanged

NextQueue ==
  \E r \in 1..MaxQueueRequests :
    QueueValidate(r) \/ QueueCheckExisting(r) \/ QueueInsert(r)

SpecQueue == InitQueue /\ [][NextQueue]_vars

----------------------------------------------------------------------------
(* mark_application_as_manually_submitted.  The select and the update are  *)
(* two database calls, and two requests can be between them at the same    *)
(* time.  datetime.now() is a clock that advances with each update.        *)

Statuses ==
  { "draft", "materials_ready", "not_viable", "submitted", "failed", "skipped" }

null_meta ==
  [ is_null |-> TRUE, queued_by |-> "none",
    submission_method |-> "none", manually_submitted_at |-> 0 ]

\* lines 2109-2115: {**current_meta, 'manually_submitted_at': now,
\* 'submission_method': 'manual', ...}, current_meta being {} for a null
updated_meta_of(current_meta, time) ==
  [ is_null |-> FALSE,
    queued_by |-> current_meta.queued_by,
    submission_method |-> "manual",
    manually_submitted_at |-> time ]

\* line 2094: the rows select(...).eq('id', application_id) returns
rows_with_id(rows, id) == { i \in DOMAIN rows : rows[i].id = id }

MaxMarks == 2

KnownId == << 0, 1 >>

UnknownId == << 0, 2 >>

InitManual ==
  /\ pc = "manual"
  /\ users_table = { "u1" }
  /\ \E st \in Statuses, meta \in { queued_meta, null_meta } :
       applications = << [ id |-> KnownId, user_id |-> "u1", job_id |-> "j1",
                           status |-> st, attempt_meta |-> meta ] >>
  /\ unique_constraint \in BOOLEAN
  /\ requests = << >>
  /\ \E ids \in [ 1..MaxMarks -> { KnownId, UnknownId } ] :
       marks = [ m \in 1..MaxMarks |->
                   [ application_id |-> ids[m], pc |-> "select",
                     current_meta |-> null_meta, response |-> 0 ] ]
  /\ now = 0
  /\ IdleExtract /\ IdleAnalyze /\ IdleCosine /\ IdleRank /\ IdleNormalize
  /\ IdleRest

manual_unchanged ==
  UNCHANGED << pc, users_table, unique_constraint, requests, extract_vars,
               analyze_vars, cosine_vars, rank_vars, norm_vars, call_vars, manager_vars,
               run_vars >>

\* lines 2093-2109: the select, the 404, the 400, and current_meta
MarkSelect(m) ==
  /\ marks[m].pc = "select"
  /\ LET found == rows_with_id(applications, marks[m].application_id)
     IN  marks' =
           [ marks EXCEPT ![m] =
               IF found = {} THEN [ @ EXCEPT !.pc = "done", !.response = 404 ]
               ELSE LET application == applications[CHOOSE i \in found : TRUE]
                    IN  IF application.status # "materials_ready"
                        THEN [ @ EXCEPT !.pc = "done", !.response = 400 ]
                        ELSE [ @ EXCEPT !.pc = "update",
                                        !.current_meta = application.attempt_meta ] ]
  /\ UNCHANGED << applications, now >>
  /\ manual_unchanged

\* lines 2110-2133: the update of the row that has the id, whatever its
\* status is by now, and the answer
MarkUpdate(m) ==
  /\ marks[m].pc = "update"
  /\ now' = now + 1
  /\ LET found == rows_with_id(applications, marks[m].application_id)
     IN  /\ applications' =
              [ i \in DOMAIN applications |->
                  IF i \in found
                  THEN [ applications[i] EXCEPT
                           !.status = "submitted",
                           !.attempt_meta = updated_meta_of(marks[m].current_meta, now') ]
                  ELSE applications[i] ]
         /\ marks' = [ marks EXCEPT ![m] =
                         [ @ EXCEPT !.pc = "done",
                                    !.response = IF found = {} THEN 500 ELSE 200 ] ]
  /\ manual_unchanged

NextManual == \E m \in 1..MaxMarks : MarkSelect(m) \/ MarkUpdate(m)

SpecManual == InitManual /\ [][NextManual]_vars

----------------------------------------------------------------------------
(* Calls of extract_skills_from_text and analyze_job_match made at the     *)
(* same time, by the threads or the processes that serve requests.  Each   *)
(* call has its arguments and its locals; a step of a call is an iteration *)
(* of one of its loops, and the steps of the calls interleave.             *)

\* a set that outlives the calls: a call starts with what the others put
new_skills_kept(cs, c) == UNION { cs[d].local : d \in DOMAIN cs }

\* lines 394 and 420: skills = set() and job_skills = set(), new objects
\* for each call
new_skills(cs, c) == {}

\* lines 396-406: the iteration of the outer loop for pattern p
pattern_skills(p, s) == { added_skill(m) : m \in Range(re_findall(p, s)) }

MaxCalls == 2

CallTexts ==
  { join_words(<< skill_patterns[1][1], nodejs >>),
    join_words(<< skill_patterns[2][1], << "N","a","t","i","v","e" >> >>) }

CallInputs ==
  { [ fn |-> "extract", text |-> t, skills |-> << >>, requirements |-> << >> ]
      : t \in CallTexts }
    \cup
  { [ fn |-> "analyze", text |-> join_words(<< skill_patterns[2][1], nodejs >>),
      skills |-> << lower(skill_patterns[2][1]), skill_patterns[1][1] >>,
      requirements |-> << skill_patterns[1][3] >> ] }

InitCalls ==
  /\ pc = "calls"
  /\ \E inputs \in [ 1..MaxCalls -> CallInputs ] :
       calls = [ c \in 1..MaxCalls |->
                   [ fn |-> inputs[c].fn,
                     text |-> inputs[c].text,
                     skills |-> inputs[c].skills,
                     requirements |-> inputs[c].requirements,
                     at |-> "called",
                     i |-> 0,
                     local |-> {},
                     overlapped |-> FALSE,
                     result |-> None ] ]
  /\ IdleExtract /\ IdleAnalyze /\ IdleCosine /\ IdleRank /\ IdleNormalize
  /\ IdleApps /\ IdleManager /\ IdleRun

calls_unchanged ==
  UNCHANGED << pc, extract_vars, analyze_vars, cosine_vars, rank_vars,
               norm_vars, app_vars, manager_vars, run_vars >>

\* lines 394 and 420: the call creates its set.  overlapped records that
\* the call ran while another one was between its first and its last step.
CallStart(c) ==
  /\ pc = "calls"
  /\ calls[c].at = "called"
  /\ LET busy == { d \in DOMAIN calls : d # c /\ calls[d].at = "loop" }
     IN  calls' =
           [ d \in DOMAIN calls |->
               IF d = c
               THEN [ calls[c] EXCEPT !.at = "loop",
                                      !.local = new_skills(calls, c),
                                      !.overlapped = busy # {} ]
               ELSE IF d \in busy THEN [ calls[d] EXCEPT !.overlapped = TRUE ]
               ELSE calls[d] ]
  /\ calls_unchanged

\* lines 396-406: one iteration of the loop over skill_patterns
CallExtractPattern(c) ==
  /\ calls[c].fn = "extract"
  /\ calls[c].at = "loop"
  /\ calls[c].i < Len(skill_patterns)
  /\ calls' =
       [ calls EXCEPT ![c] =
           [ @ EXCEPT !.i = @ + 1,
                      !.local = @ \cup pattern_skills(calls[c].i + 1,
                                                      calls[c].text) ] ]
  /\ calls_unchanged

\* line 408: return list(skills)
CallExtractReturn(c) ==
  /\ calls[c].fn = "extract"
  /\ calls[c].at = "loop"
  /\ calls[c].i = Len(skill_patterns)
  /\ \E l \in list_of(calls[c].local) :
       calls' = [ calls EXCEPT ![c] = [ @ EXCEPT !.at = "returned",
                                                 !.result = l ] ]
  /\ calls_unchanged

\* lines 421-425: job_skills.update(extract_skills_from_text(...)) for the
\* description, then for one requirement at each iteration
CallAnalyzeText(c) ==
  /\ calls[c].fn = "analyze"
  /\ calls[c].at = "loop"
  /\ calls[c].i <= Len(calls[c].requirements)
  /\ LET t == IF calls[c].i = 0 THEN calls[c].text
              ELSE calls[c].requirements[calls[c].i]
     IN  calls' =
           [ calls EXCEPT ![c] =
               [ @ EXCEPT !.i = @ + 1, !.local = @ \cup skills_set(t) ] ]
  /\ calls_unchanged

\* lines 428-459: the two dicts, the two lists and the dict returned
CallAnalyzeReturn(c) ==
  /\ calls[c].fn = "analyze"
  /\ calls[c].at = "loop"
  /\ calls[c].i = Len(calls[c].requirements) + 1
  /\ \E r \in analyze_rest(calls[c].skills, calls[c].local) :
       calls' = [ calls EXCEPT ![c] = [ @ EXCEPT !.at = "returned",
                                                 !.result = r.result ] ]
  /\ calls_unchanged

NextCalls ==
  \E c \in 1..MaxCalls :
    \/ CallStart(c)
    \/ CallExtractPattern(c)
    \/ CallExtractReturn(c)
    \/ CallAnalyzeText(c)
    \/ CallAnalyzeReturn(c)

SpecCalls == InitCalls /\ [][NextCalls]_vars

----------------------------------------------------------------------------
(* analyze_job_match called twice on the same arguments, each call in an   *)
(* interpreter process.  The hash of a str is salted with a seed drawn     *)
(* when the interpreter starts (PYTHONHASHSEED), so the order in which a   *)
(* set of str is iterated is fixed in a process and differs between        *)
(* processes: the model starts the iteration at a member the seed picks.   *)

\* list(S) in the process that has this hash seed
hash_order(seed, S) ==
  LET l == some_order(S)
      k == IF S = {} THEN 0 ELSE seed % Cardinality(S)
  IN  SubSeq(l, k + 1, Len(l)) \o SubSeq(l, 1, k)

\* lines 411-459 in the process that has this hash seed: the dict returned
analyze_in_process(seed, skills, description, requirements) ==
  LET js == job_skills_of(description, requirements)
      user_n == normalized_dict(skills)
      job_n == normalized_dict(hash_order(seed, js))
      tk == top_keywords_of(user_n, job_n,
                            hash_order(seed, matching_normalized(user_n, job_n)))
      ms == missing_skills_of(user_n, job_n,
                              hash_order(seed, missing_normalized(user_n, job_n)))
  IN  [ top_keywords |-> py_slice_to(tk, TopLimit),
        missing_skills |-> py_slice_to(ms, TopLimit) ]

MaxHashSeed == 1

HashSeeds == 0..MaxHashSeed

RepeatInputs ==
  { [ skills |-> sk, description |-> d, requirements |-> << >> ]
      : sk \in lists_upto(UserSkillPool, 1), d \in JobTexts }
    \cup
  { [ skills |-> sk, description |-> LongJobText, requirements |-> << >> ]
      : sk \in LongUserSkills }

no_analysis == [ top_keywords |-> << >>, missing_skills |-> << >> ]

InitRepeat ==
  /\ pc = "repeat"
  /\ \E in \in RepeatInputs, seeds \in [ 1..2 -> HashSeeds ] :
       calls = [ c \in 1..2 |->
                   [ skills |-> in.skills,
                     text |-> in.description,
                     requirements |-> in.requirements,
                     seed |-> seeds[c],
                     at |-> "called",
                     result |-> no_analysis ] ]
  /\ IdleExtract /\ IdleAnalyze /\ IdleCosine /\ IdleRank /\ IdleNormalize
  /\ IdleApps /\ IdleManager /\ IdleRun

\* one call, in its process
RepeatAnalyze(c) ==
  /\ pc = "repeat"
  /\ calls[c].at = "called"
  /\ calls' =
       [ calls EXCEPT ![c] =
           [ @ EXCEPT !.at = "returned",
                      !.result = analyze_in_process(calls[c].seed, calls[c].skills,
                                                    calls[c].text,
                                                    calls[c].requirements) ] ]
  /\ calls_unchanged

NextRepeat == \E c \in 1..2 : RepeatAnalyze(c)

SpecRepeat == InitRepeat /\ [][NextRepeat]_vars

----------------------------------------------------------------------------
(* WorkerManager and the endpoints POST /worker/start and /worker/stop.    *)
(* A call is made from the command line (python worker_manager.py start,   *)
(* stop, restart; the monitor loop calls restart as well) or by a request, *)
(* each in a process of its own, with a WorkerManager of its own: what the *)
(* calls share is the file worker.pid and the process table.  A step is    *)
(* an access to one of the two, and the steps of the calls interleave.  A  *)
(* worker process can also end by itself.                                  *)

\* main.py lines 2316-2320 and 2345-2349: an HTTPException raised inside
\* the try block is an Exception, so the except clause catches it and the
\* client gets the HTTPException(status_code=500) raised there
handler_answer(status) == 500

\* lines 72-86: is_running() finds the file, and the pid it holds is that
\* of a gemini_apply_worker process
pid_is_worker(file, procs) == file # 0 /\ file \in procs

MaxManagerCalls == 2

MaxSpawned == 2

ManagerOps ==
  { [ op |-> "start", api |-> FALSE ], [ op |-> "start", api |-> TRUE ],
    [ op |-> "stop", api |-> FALSE ], [ op |-> "stop", api |-> TRUE ],
    [ op |-> "restart", api |-> FALSE ] }

\* where a call starts: the endpoint calls is_running() itself first
first_site(o) ==
  IF o.api THEN "api" ELSE o.op

InitManager ==
  /\ pc = "manager"
  /\ \/ processes = {} /\ pid_file = 0 /\ spawned = 0
     \/ processes = {1} /\ pid_file = 1 /\ spawned = 1
  /\ \E ops \in [ 1..MaxManagerCalls -> ManagerOps ] :
       manager_calls =
         [ c \in 1..MaxManagerCalls |->
             [ op |-> ops[c].op,
               api |-> ops[c].api,
               site |-> first_site(ops[c]),
               pc |-> "is_running",
               api_saw |-> "nothing",
               pid |-> 0,
               spawned |-> 0,
               result |-> "none",
               http |-> 0 ] ]
  /\ IdleExtract /\ IdleAnalyze /\ IdleCosine /\ IdleRank /\ IdleNormalize
  /\ IdleApps /\ IdleCalls /\ IdleRun

manager_unchanged ==
  UNCHANGED << pc, extract_vars, analyze_vars, cosine_vars, rank_vars,
               norm_vars, app_vars, call_vars, run_vars >>

\* start() or the start() of restart() returns r: the call is over, and
\* the endpoint answers 200 or raises its HTTPException(500)
start_returns(call, r) ==
  [ call EXCEPT !.pc = "done",
                !.result = IF r THEN "True" ELSE "False",
                !.http = IF ~ call.api THEN 0
                         ELSE IF r THEN 200 ELSE handler_answer(500) ]

\* stop() returns r: restart() goes on with start() after a stop that
\* succeeded (lines 243-251)
stop_returns(call, r) ==
  IF call.op = "restart"
  THEN IF r THEN [ call EXCEPT !.site = "start", !.pc = "is_running" ]
       ELSE [ call EXCEPT !.pc = "done", !.result = "False" ]
  ELSE [ call EXCEPT !.pc = "done",
                     !.result = IF r THEN "True" ELSE "False",
                     !.http = IF ~ call.api THEN 0
                              ELSE IF r THEN 200 ELSE handler_answer(500) ]

\* what the call does with the answer of is_running(), by the place of
\* the call: main.py lines 2304-2305 and 2337-2338, worker_manager.py lines
\* 152-154, 187-193, 202-204 and 243
after_is_running(call, running) ==
  CASE call.site = "api" ->
         IF (call.op = "start") = running
         THEN [ call EXCEPT !.pc = "done",
                            !.api_saw = IF running THEN "running" ELSE "stopped",
                            !.http = handler_answer(400) ]
         ELSE [ call EXCEPT !.site = call.op,
                            !.api_saw = IF running THEN "running" ELSE "stopped" ]
    [] call.site = "start" ->
         IF running THEN start_returns(call, FALSE)
         ELSE [ call EXCEPT !.pc = "popen" ]
    [] call.site = "verify" -> start_returns(call, running)
    [] call.site = "stop" ->
         IF running THEN [ call EXCEPT !.pc = "get_pid" ]
         ELSE stop_returns(call, FALSE)
    [] call.site = "restart" ->
         IF running THEN [ call EXCEPT !.site = "stop" ]
         ELSE [ call EXCEPT !.site = "start" ]

\* lines 72-86: is_running() up to its answer, or up to the unlink of a
\* file whose pid is not that of a worker
ManagerIsRunning(c) ==
  /\ pc = "manager"
  /\ manager_calls[c].pc = "is_running"
  /\ manager_calls' =
       [ manager_calls EXCEPT ![c] =
           IF pid_file = 0 THEN after_is_running(@, FALSE)
           ELSE IF pid_is_worker(pid_file, processes)
                THEN after_is_running(@, TRUE)
                ELSE [ @ EXCEPT !.pc = "unlink" ] ]
  /\ UNCHANGED << processes, pid_file, spawned >>
  /\ manager_unchanged

\* lines 88-94: self.pid_file.unlink() removes the file that is there by
\* now (a missing file raises, which is caught): is_running() is False
ManagerUnlink(c) ==
  /\ pc = "manager"
  /\ manager_calls[c].pc = "unlink"
  /\ pid_file' = 0
  /\ manager_calls' =
       [ manager_calls EXCEPT ![c] =
           after_is_running([ @ EXCEPT !.pc = "is_running" ], FALSE) ]
  /\ UNCHANGED << processes, spawned >>
  /\ manager_unchanged

\* lines 158-179: subprocess.Popen starts a worker process
ManagerPopen(c) ==
  /\ pc = "manager"
  /\ manager_calls[c].pc = "popen"
  /\ spawned < MaxSpawned
  /\ spawned' = spawned + 1
  /\ processes' = processes \cup { spawned' }
  /\ manager_calls' =
       [ manager_calls EXCEPT ![c] =
           [ @ EXCEPT !.pc = "write", !.pid = spawned',
                      !.spawned = @ + 1 ] ]
  /\ UNCHANGED pid_file
  /\ manager_unchanged

\* lines 181-186: the pid is written to the file, then time.sleep(2) and
\* the is_running() of line 187
ManagerWrite(c) ==
  /\ pc = "manager"
  /\ manager_calls[c].pc = "write"
  /\ pid_file' = manager_calls[c].pid
  /\ manager_calls' =
       [ manager_calls EXCEPT ![c] =
           [ @ EXCEPT !.pc = "is_running", !.site = "verify" ] ]
  /\ UNCHANGED << processes, spawned >>
  /\ manager_unchanged

\* lines 206-208: get_pid() reads the file again; no file, no pid
ManagerGetPid(c) ==
  /\ pc = "manager"
  /\ manager_calls[c].pc = "get_pid"
  /\ manager_calls' =
       [ manager_calls EXCEPT ![c] =
           IF pid_file = 0 THEN stop_returns(@, FALSE)
           ELSE [ @ EXCEPT !.pc = "kill", !.pid = pid_file ] ]
  /\ UNCHANGED << processes, pid_file, spawned >>
  /\ manager_unchanged

\* lines 212-228: psutil.Process(pid) raises for a process that is gone
\* (stop() returns False); terminate() or kill() ends the process
ManagerKill(c) ==
  /\ pc = "manager"
  /\ manager_calls[c].pc = "kill"
  /\ IF manager_calls[c].pid \in processes
     THEN /\ processes' = processes \ { manager_calls[c].pid }
          /\ manager_calls' =
               [ manager_calls EXCEPT ![c] = [ @ EXCEPT !.pc = "remove" ] ]
     ELSE /\ processes' = processes
          /\ manager_calls' =
               [ manager_calls EXCEPT ![c] = stop_returns(@, FALSE) ]
  /\ UNCHANGED << pid_file, spawned >>
  /\ manager_unchanged

\* lines 230-234: the file, if it is there, is removed; stop() is True
ManagerRemove(c) ==
  /\ pc = "manager"
  /\ manager_calls[c].pc = "remove"
  /\ pid_file' = 0
  /\ manager_calls' = [ manager_calls EXCEPT ![c] = stop_returns(@, TRUE) ]
  /\ UNCHANGED << processes, spawned >>
  /\ manager_unchanged

\* a worker process ends by itself
WorkerExits ==
  /\ pc = "manager"
  /\ \E p \in processes : processes' = processes \ { p }
  /\ UNCHANGED << pid_file, spawned, manager_calls >>
  /\ manager_unchanged

NextManager ==
  \/ \E c \in 1..MaxManagerCalls :
       \/ ManagerIsRunning(c)
       \/ ManagerUnlink(c)
       \/ ManagerPopen(c)
       \/ ManagerWrite(c)
       \/ ManagerGetPid(c)
       \/ ManagerKill(c)
       \/ ManagerRemove(c)
  \/ WorkerExits

SpecManager == InitManager /\ [][NextManager]_vars

----------------------------------------------------------------------------
(* GeminiApplyWorker.run_once, run again and again by run_continuous.  A   *)
(* run fetches at most FetchLimit applications in status 'draft' and       *)
(* processes them one by one.  What the AI agent answers, and whether a    *)
(* call to it or to the database fails, is not decided by the worker: any  *)
(* of the outcomes can happen for an application that has a job URL.       *)

\* gemini_apply_worker.py line 588: fetch_pending_applications(limit=5)
FetchLimit == 5

\* lines 552-563: the status update_application_status writes for a result
status_written(result_status) ==
  IF result_status = "applied" THEN "submitted" ELSE result_status

\* lines 555-560: the attempt_meta written has the keys applied_at, method,
\* match_score and ai_agent, and none of the keys it had
worker_meta ==
  [ is_null |-> FALSE, queued_by |-> "none",
    submission_method |-> "none", manually_submitted_at |-> 0 ]

\* lines 403-444: the rows select(...).eq('status', 'draft') can return
draft_rows(rows) == { i \in DOMAIN rows : rows[i].status = "draft" }

\* the members of a set of positions, in increasing order
RECURSIVE in_order(_)
in_order(S) ==
  IF S = {} THEN << >>
  ELSE LET m == CHOOSE x \in S : \A y \in S : x <= y
       IN  << m >> \o in_order(S \ {m})

\* .limit(limit): the query has no ORDER BY, so any limit of the rows
fetches(rows, limit) ==
  LET drafts == draft_rows(rows)
      n == IF Cardinality(drafts) < limit THEN Cardinality(drafts) ELSE limit
  IN  { in_order(S) : S \in { T \in SUBSET drafts : Cardinality(T) = n } }

\* lines 446-548: what process_application can return for an application,
\* and whether it has written the result to the database
outcomes(application) ==
  IF ~ jobs_rows[application.job_id].has_url
  THEN { [ status |-> "failed", written |-> FALSE ] }
  ELSE { [ status |-> "skipped", written |-> FALSE ],
         [ status |-> "failed", written |-> FALSE ],
         [ status |-> "applied", written |-> TRUE ],
         [ status |-> "applied", written |-> FALSE ] }

MaxApplications == 6

MaxRuns == 2

InitRun ==
  /\ pc = "worker"
  /\ users_table = { "u1" }
  /\ \E n \in 1..MaxApplications, j \in { "j1", "j3" },
        st \in { "draft", "submitted" } :
       applications =
         [ k \in 1..n |->
             [ id |-> << 0, k >>, user_id |-> "u1",
               job_id |-> IF k = 1 THEN j ELSE "j1",
               status |-> IF k = 1 THEN st ELSE "draft",
               attempt_meta |-> queued_meta ] ]
  /\ unique_constraint = FALSE
  /\ requests = << >>
  /\ marks = << >>
  /\ now = 0
  /\ worker_run = [ pc |-> "idle", fetched |-> << >>, k |-> 0,
                    results |-> << >>, runs |-> 0 ]
  /\ IdleExtract /\ IdleAnalyze /\ IdleCosine /\ IdleRank /\ IdleNormalize
  /\ IdleCalls /\ IdleManager

run_unchanged ==
  UNCHANGED << pc, users_table, unique_constraint, requests, marks, now,
               extract_vars, analyze_vars, cosine_vars, rank_vars, norm_vars,
               call_vars, manager_vars >>

\* lines 577-606: the run starts and fetches; with nothing to process it
\* returns at once
RunFetch ==
  /\ pc = "worker"
  /\ worker_run.pc = "idle"
  /\ worker_run.runs < MaxRuns
  /\ \E f \in fetches(applications, FetchLimit) :
       worker_run' =
         IF f = << >>
         THEN [ worker_run EXCEPT !.fetched = f, !.results = << >>,
                                  !.k = 0, !.runs = @ + 1 ]
         ELSE [ worker_run EXCEPT !.pc = "processing", !.fetched = f,
                                  !.results = << >>, !.k = 1 ]
  /\ UNCHANGED applications
  /\ run_unchanged

\* lines 608-620: one iteration of the loop: process_application, which
\* calls update_application_status for an application it has applied to
RunProcess ==
  /\ pc = "worker"
  /\ worker_run.pc = "processing"
  /\ worker_run.k <= Len(worker_run.fetched)
  /\ LET i == worker_run.fetched[worker_run.k]
     IN  \E o \in outcomes(applications[i]) :
           /\ applications' =
                IF o.written
                THEN [ applications EXCEPT
                         ![i] = [ @ EXCEPT !.status = status_written(o.status),
                                           !.attempt_meta = worker_meta ] ]
                ELSE applications
           /\ worker_run' =
                [ worker_run EXCEPT !.k = @ + 1,
                                    !.results = Append(@, o.status) ]
  /\ run_unchanged

\* lines 622-636: the summary of the run
RunEnd ==
  /\ pc = "worker"
  /\ worker_run.pc = "processing"
  /\ worker_run.k > Len(worker_run.fetched)
  /\ worker_run' = [ worker_run EXCEPT !.pc = "idle", !.runs = @ + 1 ]
  /\ UNCHANGED applications
  /\ run_unchanged

NextRun == RunFetch \/ RunProcess \/ RunEnd

SpecRun == InitRun /\ [][NextRun]_vars

----------------------------------------------------------------------------
(* Properties of cosine_similarity (SpecCosine) *)

\* C1: cosine_similarity fails with the dimension-mismatch error (ValueError)
\* for every pair of vectors of different lengths: it returns no number, not
\* even 0.0 when a vector is all zeros, so nothing was truncated or padded.
C1_MismatchRaises ==
  (pc = "returned" /\ Len(vec_a) # Len(vec_b))
    => cos_result.kind = "ValueError"

\* a call on an all-zero vector and a longer vector has raised
C1_Witness ==
  /\ pc = "returned"
  /\ vec_a # << >>
  /\ norm_squared(vec_a) = 0
  /\ Len(vec_b) > Len(vec_a)
  /\ cos_result.kind = "ValueError"

\* C11: for vectors of equal length, one of which (or both) has norm zero,
\* cosine_similarity returns 0.0: it neither raises nor divides by zero.
C11_ZeroNormGivesZero ==
  (/\ pc = "returned"
   /\ Len(vec_a) = Len(vec_b)
   /\ (norm_squared(vec_a) = 0 \/ norm_squared(vec_b) = 0))
    => (/\ cos_result.kind = "value"
        /\ cos_result.dot = 0
        /\ cos_result.sq > 0)

\* [0, 0] against a non-zero vector of the same length has returned 0.0
C11_Witness ==
  /\ pc = "returned"
  /\ vec_a = << 0, 0 >>
  /\ Len(vec_b) = 2
  /\ norm_squared(vec_b) > 0
  /\ cos_result.kind = "value"
  /\ cos_result.dot = 0

\* C12: for every non-zero vector a, cosine_similarity(a, a) is
\* dot(a, a) / (norm(a) * norm(a)), which is 1 (exactly so in the model,
\* where the quotient dot / sqrt(sq) is kept exact).
C12_SelfSimilarityIsOne ==
  (pc = "returned" /\ vec_a = vec_b /\ norm_squared(vec_a) # 0)
    => (/\ cos_result.kind = "value"
        /\ cos_result.dot = norm_squared(vec_a)
        /\ cos_result.sq = norm_squared(vec_a) * norm_squared(vec_a)
        /\ cos_result.dot > 0
        /\ cos_result.dot * cos_result.dot = cos_result.sq
        /\ round3(cos_result) = 1000)

\* [1, 2] against itself has returned 1
C12_Witness ==
  /\ pc = "returned"
  /\ vec_a = << 1, 2 >>
  /\ vec_b = << 1, 2 >>
  /\ cos_result.kind = "value"
  /\ cos_result.dot * cos_result.dot = cos_result.sq

----------------------------------------------------------------------------
(* Properties of match_jobs (SpecRank) *)

Answered == pc = "done" /\ response.kind = "ok"

\* rows 1 .. idx-1 have been through the loop
Processed(i) == pc \in {"loop", "done"} /\ i < idx

IsList(i) ==
  /\ jobs[i].raw_is_dict
  /\ jobs[i].has_embedding
  /\ ~ jobs[i].embedding_is_null

\* the row has an embedding: the key is there and holds a non-empty list
HasUsableEmbedding(i) == IsList(i) /\ jobs[i].embedding # << >>

\* the row's embedding is a list of another length than the candidate's
Mismatched(i) ==
  IsList(i) /\ Len(jobs[i].embedding) # Len(resume_embedding)

\* the rows for which cosine_similarity returns a number
Scorable ==
  { i \in DOMAIN jobs :
      IsList(i) /\ Len(jobs[i].embedding) = Len(resume_embedding) }

\* C2, as stated: for every top_n, 0 and negative values included, matches
\* has at most top_n entries (none when top_n is not positive), and
\* total_jobs_searched >= len(matches).
C2_AtMostTopN ==
  Answered =>
    /\ Len(response.matches) <= (IF top_n < 0 THEN 0 ELSE top_n)
    /\ response.total_jobs_searched >= Len(response.matches)

\* C2, amended: for top_n >= 0 matches has at most top_n entries; for a
\* negative top_n the slice drops the last -top_n scored jobs, so matches has
\* max(0, total_jobs_searched + top_n) entries; in every case
\* total_jobs_searched >= len(matches).
C2_SliceSemantics ==
  Answered =>
    /\ top_n >= 0 => Len(response.matches) <= top_n
    /\ top_n < 0 =>
         Len(response.matches) =
           (IF response.total_jobs_searched + top_n > 0
            THEN response.total_jobs_searched + top_n ELSE 0)
    /\ response.total_jobs_searched >= Len(response.matches)

\* more jobs were scored than top_n asks for, and top_n of them are returned
C2_Witness ==
  /\ Answered
  /\ top_n >= 1
  /\ response.total_jobs_searched > top_n
  /\ Len(response.matches) = top_n

\* C3: no job that lacks an embedding is in matches, and
\* total_jobs_searched is exactly the number of rows that have a usable
\* embedding and were scored, whatever top_n is.
C3_OnlyScoredJobsCounted ==
  Answered =>
    /\ \A k \in DOMAIN response.matches :
         /\ response.matches[k].job_id \in DOMAIN jobs
         /\ HasUsableEmbedding(response.matches[k].job_id)
    /\ response.total_jobs_searched = Cardinality(Scorable)

\* some rows lack an embedding, others were scored, and the slice is shorter
\* than the count
C3_Witness ==
  /\ Answered
  /\ \E i \in DOMAIN jobs : ~ jobs[i].has_embedding
  /\ \E i \in DOMAIN jobs : IsList(i) /\ jobs[i].embedding = << >>
  /\ Scorable # {}
  /\ Len(response.matches) < response.total_jobs_searched

\* C4, as stated: once the loop has been through a row whose embedding has
\* another length than the candidate's, the call has failed with the
\* dimension-mismatch error of cosine_similarity.
C4_MismatchPropagates ==
  \A i \in DOMAIN jobs :
    (Processed(i) /\ Mismatched(i))
      => (pc = "done" /\ response.kind = "ValueError")

\* C4, amended: the ValueError of cosine_similarity is caught in the loop
\* and the row is skipped: it is in no match, the call never fails with the
\* mismatch error, and the only failure (HTTP 500) comes from a row whose
\* embedding or description is null.
C4_MismatchSkipped ==
  /\ \A i \in DOMAIN jobs :
       (Processed(i) /\ Mismatched(i))
         => \A k \in DOMAIN job_matches : job_matches[k].job_id # i
  /\ pc = "done" =>
       /\ response.kind \in {"ok", "HTTP500"}
       /\ response.kind = "HTTP500" =>
            \E i \in DOMAIN jobs :
              /\ jobs[i].raw_is_dict
              /\ jobs[i].has_embedding
              /\ jobs[i].embedding_is_null \/ jobs[i].description_is_null

\* a row with a one-dimensional embedding was skipped and another row is
\* returned
C4_Witness ==
  /\ Answered
  /\ \E i \in DOMAIN jobs : Mismatched(i) /\ jobs[i].embedding # << >>
  /\ Len(response.matches) >= 1

----------------------------------------------------------------------------
(* Properties of analyze_job_match (SpecAnalyze) *)

Keys(l) == { normalize_skill(l[i]) : i \in DOMAIN l }

UserKeys == Keys(user_skills)

JobKeys == { normalize_skill(sk) : sk \in job_skills }

\* C5: the normalized keys of the matching skills, before the cap, are
\* exactly the keys present in both the candidate's and the job's map, one
\* string per key, and each string is a display string of the candidate,
\* never the job's.
C5_MatchingFromCandidate ==
  pc = "analyzed" =>
    /\ Keys(top_keywords) = UserKeys \cap JobKeys
    /\ Len(top_keywords) = Cardinality(UserKeys \cap JobKeys)
    /\ \A i \in DOMAIN top_keywords : top_keywords[i] \in Range(user_skills)

\* candidate 'react' against a job text with 'React' emits 'react'
C5_Witness ==
  /\ pc = "analyzed"
  /\ user_skills = << << "r","e","a","c","t" >> >>
  /\ << "R","e","a","c","t" >> \in job_skills
  /\ top_keywords = << << "r","e","a","c","t" >> >>

\* C6: the normalized keys of the missing skills, before the cap, are
\* exactly the keys of the job's map that are absent from the candidate's,
\* one string per key, each a display string of the job; no key is both
\* matching and missing.
C6_MissingFromJob ==
  pc = "analyzed" =>
    /\ Keys(missing_skills) = JobKeys \ UserKeys
    /\ Len(missing_skills) = Cardinality(JobKeys \ UserKeys)
    /\ \A i \in DOMAIN missing_skills : missing_skills[i] \in job_skills
    /\ Keys(top_keywords) \cap Keys(missing_skills) = {}

\* a job with a skill the candidate has and a skill the candidate lacks
C6_Witness ==
  /\ pc = "analyzed"
  /\ job_description # << >>
  /\ job_requirements # << >>
  /\ top_keywords # << >>
  /\ missing_skills # << >>

\* C7: with an empty description and no requirement, both returned lists
\* are empty, whatever the candidate's skills.
C7_EmptyJobEmptyLists ==
  (pc = "analyzed" /\ job_description = << >> /\ job_requirements = << >>)
    => (analysis.top_keywords = << >> /\ analysis.missing_skills = << >>)

\* the call was made for a candidate with two skills and an empty job
C7_Witness ==
  /\ pc = "analyzed"
  /\ job_description = << >>
  /\ job_requirements = << >>
  /\ Len(user_skills) = 2
  /\ analysis.top_keywords = << >>

----------------------------------------------------------------------------
(* Properties of extract_skills_from_text (SpecExtract) *)

Called == pc \in {"called once", "called twice"}

CatalogTerms == UNION { Range(skill_patterns[p]) : p \in DOMAIN skill_patterns }

IsWordAt(s, p) == p \in DOMAIN s /\ s[p] \in WordChars

\* the n characters from position i are not part of a longer word
Delimited(s, i, n) == ~ IsWordAt(s, i - 1) /\ ~ IsWordAt(s, i + n)

\* t occurs in s as a whole word, letter case ignored
OccursAsWholeWord(t, s) ==
  \E i \in 1..(Len(s) - Len(t) + 1) :
    /\ lower(SubSeq(s, i, i + Len(t) - 1)) = lower(t)
    /\ Delimited(s, i, Len(t))

\* the catalog term a string stands for: its lower-case form, the spelling
\* without the dot being the same term as the one with it
TermKey(t) ==
  IF lower(t) = nodejs THEN node_js
  ELSE IF lower(t) = nextjs THEN next_js
  ELSE lower(t)

\* C8, as stated: the skills returned are exactly the catalog terms that
\* occur in the text as whole words: none is reported from inside a longer
\* word, none that is present as a whole word is missed.
C8_ExactlyTheWholeWordTerms ==
  Called =>
    { TermKey(r) : r \in Range(skills1) }
      = { TermKey(t) : t \in { u \in CatalogTerms : OccursAsWholeWord(u, text) } }

\* a \b of the regular expression at position p
RegexBoundary(s, p) == IsWordAt(s, p - 1) # IsWordAt(s, p)

\* r is in s, in the given spelling or in any letter case, between two \b
BoundedOccurrence(r, s, exact) ==
  \E i \in 1..(Len(s) - Len(r) + 1) :
    /\ IF exact THEN SubSeq(s, i, i + Len(r) - 1) = r
       ELSE lower(SubSeq(s, i, i + Len(r) - 1)) = lower(r)
    /\ RegexBoundary(s, i)
    /\ RegexBoundary(s, i + Len(r))

\* C9, as stated: every returned skill occurs in the text as a whole word,
\* letter case ignored; a whole word is an occurrence that is not part of a
\* longer word, or one that lies between two word boundaries of the regular
\* expression.
C9_MembersOccurAsWholeWords ==
  Called =>
    \A r \in Range(skills1) :
      OccursAsWholeWord(r, text) \/ BoundedOccurrence(r, text, FALSE)

\* C9, amended: every returned skill is either a piece of the text, spelled
\* as in the text, that equals a catalog term up to letter case and lies
\* between two word boundaries of the regular expression, or the canonical
\* name Node.js (Next.js) returned for such an occurrence of node.js or
\* nodejs (next.js or nextjs).
C9_MembersAreBoundedMatches ==
  Called =>
    \A r \in Range(skills1) :
      \/ /\ BoundedOccurrence(r, text, TRUE)
         /\ \E t \in CatalogTerms : lower(t) = lower(r)
      \/ /\ r = NodeJs
         /\ \E sp \in {node_js, nodejs} : BoundedOccurrence(sp, text, FALSE)
      \/ /\ r = NextJs
         /\ \E sp \in {next_js, nextjs} : BoundedOccurrence(sp, text, FALSE)

\* 'Node.js' was returned for a text that holds 'Nodejs' only
C9_Witness ==
  /\ Called
  /\ skills1 = << NodeJs >>
  /\ BoundedOccurrence(nodejs, text, FALSE)
  /\ ~ BoundedOccurrence(node_js, text, FALSE)

CanonicalNames ==
  { t \in CatalogTerms : lower(t) \notin {nodejs, nextjs} }

\* the catalog terms with their lower-case forms
LowerTerms == { << t, lower(t) >> : t \in CatalogTerms }

\* the spellings in which a term (tl, in lower case) stands in s between
\* two \b; low is s in lower case
SpellingsOf(tl, s, low) ==
  { SubSeq(s, i, i + Len(tl) - 1) :
      i \in { j \in 1..(Len(s) - Len(tl) + 1) :
                /\ SubSeq(low, j, j + Len(tl) - 1) = tl
                /\ RegexBoundary(s, j)
                /\ RegexBoundary(s, j + Len(tl)) } }

DotTerms == {node_js, next_js}

\* the lower-case spellings of the term whose lower-case form is tl
SpelledAs(tl) ==
  IF tl \in {node_js, nodejs} THEN {node_js, nodejs}
  ELSE IF tl \in {next_js, nextjs} THEN {next_js, nextjs}
  ELSE {tl}

\* C13, as stated: every returned string is the catalog's canonical display
\* spelling of its skill, whatever the casing or spelling in the text.
C13_MembersAreCanonical ==
  Called => \A r \in Range(skills1) : r \in CanonicalNames

\* C13, amended: only node.js / nodejs and next.js / nextjs are replaced by
\* their canonical names 'Node.js' and 'Next.js'; every other returned
\* string is a spelling found in the text, and every spelling in which
\* another catalog term is matched in the text is returned as it stands.
C13_CanonicalOnlyForDotTerms ==
  Called =>
    LET low == lower(text)
    IN  /\ \A r \in Range(skills1) :
             IF TermKey(r) \in DotTerms
             THEN r = (IF TermKey(r) = node_js THEN NodeJs ELSE NextJs)
             ELSE \E t \in LowerTerms : r \in SpellingsOf(t[2], text, low)
        /\ \A t \in LowerTerms :
             SpelledAs(t[2]) = {t[2]}
               => SpellingsOf(t[2], text, low) \subseteq Range(skills1)

\* a spelling that is not the catalog's was returned as the text has it
C13_Witness ==
  /\ Called
  /\ \E r \in Range(skills1) :
       /\ r \notin CanonicalNames
       /\ \E t \in LowerTerms : r \in SpellingsOf(t[2], text, lower(text))

\* the positions of the list l (given in lower case) that stand for the
\* term whose lower-case form is tl
MembersFor(tl, l) == { i \in DOMAIN l : l[i] \in SpelledAs(tl) }

\* C14, as stated: a catalog skill that occurs in the text (as a whole word
\* that also lies between two \b), however often and in whatever casings,
\* has exactly one member in the returned list.
C14_OneMemberPerSkill ==
  Called =>
    LET low == lower(text)
        returned == [ i \in DOMAIN skills1 |-> lower(skills1[i]) ]
    IN  \A t \in LowerTerms :
          (\E j \in 1..(Len(text) - Len(t[2]) + 1) :
             /\ SubSeq(low, j, j + Len(t[2]) - 1) = t[2]
             /\ Delimited(text, j, Len(t[2]))
             /\ RegexBoundary(text, j)
             /\ RegexBoundary(text, j + Len(t[2])))
            => Cardinality(MembersFor(t[2], returned)) = 1

\* C14, amended: no string is returned twice, and a catalog skill has one
\* member for each distinct spelling (letter casing) in which it is matched
\* in the text, however often each occurs; node.js / nodejs and next.js /
\* nextjs have a single member whatever their spellings.
C14_OneMemberPerSpelling ==
  Called =>
    LET low == lower(text)
        returned == [ i \in DOMAIN skills1 |-> lower(skills1[i]) ]
    IN  /\ \A i, j \in DOMAIN skills1 : skills1[i] = skills1[j] => i = j
        /\ \A t \in LowerTerms :
             LET found == UNION { SpellingsOf(u, text, low) : u \in SpelledAs(t[2]) }
             IN  Cardinality(MembersFor(t[2], returned)) =
                   IF SpelledAs(t[2]) # {t[2]}
                   THEN (IF found = {} THEN 0 ELSE 1)
                   ELSE Cardinality(found)

\* a skill written in two casings has two members, one written twice in
\* the same casing would have one
C14_Witness ==
  /\ Called
  /\ Len(skills1) = 2
  /\ skills1[1] # skills1[2]
  /\ TermKey(skills1[1]) = TermKey(skills1[2])

\* no catalog term stands in s, as a whole word or between two \b
NoCatalogTerm(s) ==
  LET low == lower(s)
  IN  \A t \in LowerTerms :
        \A j \in 1..(Len(s) - Len(t[2]) + 1) :
          SubSeq(low, j, j + Len(t[2]) - 1) = t[2]
            => /\ ~ Delimited(s, j, Len(t[2]))
               /\ ~ (RegexBoundary(s, j) /\ RegexBoundary(s, j + Len(t[2])))

\* C15, as stated: for the empty text, for the null text and for a text
\* that holds no catalog term, extract_skills_from_text raises nothing and
\* returns the empty list.
C15_EmptyForEmptyNullOrNoTerm ==
  (/\ pc \in {"called once", "called twice", "raised"}
   /\ IF text = None THEN TRUE ELSE NoCatalogTerm(text))
    => (pc # "raised" /\ skills1 = << >>)

\* C15, without the null text: the empty text and a text without catalog
\* term give the empty list
C15_EmptyForEmptyOrNoTerm ==
  (Called /\ NoCatalogTerm(text)) => skills1 = << >>

\* the call on the null text has raised
C15_NullRaised == pc = "raised" /\ text = None

\* the skills of the parts of the job that are strings
UsableJobSkills ==
  (IF job_description = None THEN {} ELSE skills_set(job_description))
    \cup (IF job_requirements = None THEN {}
          ELSE UNION { IF job_requirements[i] = None THEN {}
                       ELSE skills_set(job_requirements[i])
                       : i \in DOMAIN job_requirements })

\* C16, as stated: analyze_job_match never raises for malformed input: with
\* a null description, null requirements or a null requirement entry it
\* returns a result, built from an empty skill set for that part.
C16_NeverRaises ==
  pc \in {"analyzed", "analyze raised"} =>
    /\ pc = "analyzed"
    /\ job_skills = UsableJobSkills

\* l is what the slice [:10] leaves of full
FirstTen(l, full) ==
  /\ Len(l) = (IF Len(full) < 10 THEN Len(full) ELSE 10)
  /\ \A i \in DOMAIN l : l[i] = full[i]

\* C18: analyze_job_match returns at most 10 matching skills and at most 10
\* missing skills, and each returned list is the untruncated list cut after
\* its first 10 entries: entries are dropped, never added or replaced.
C18_AtMostTenOfEach ==
  pc = "analyzed" =>
    /\ Len(analysis.top_keywords) <= 10
    /\ Len(analysis.missing_skills) <= 10
    /\ FirstTen(analysis.top_keywords, top_keywords)
    /\ FirstTen(analysis.missing_skills, missing_skills)

\* eleven skills match and ten of them are returned
C18_Witness ==
  /\ pc = "analyzed"
  /\ Len(top_keywords) = 11
  /\ Len(analysis.top_keywords) = 10
  /\ Len(analysis.missing_skills) = 1

----------------------------------------------------------------------------
(* Properties of normalize_skill (SpecNormalize) *)

Normalized == pc \in {"normalized", "normalized twice"}

\* lowercase(trim(s))
LowerTrim(s) == lower(strip(s))

\* the synonym table as the claim lists it
ListedSynonyms ==
  (node_js :> nodejs) @@ (next_js :> nextjs)
    @@ (<< "c","+","+" >> :> << "c","p","p" >>)
    @@ (<< "c","#" >> :> << "c","s","h","a","r","p" >>)
    @@ (<< "m","a","c","h","i","n","e"," ","l","e","a","r","n","i","n","g" >>
          :> << "m","l" >>)
    @@ (<< "d","a","t","a"," ","s","c","i","e","n","c","e" >> :> << "d","s" >>)

\* the listed table with the entry the code has besides
AllSynonyms ==
  ListedSynonyms
    @@ (<< "a","r","t","i","f","i","c","i","a","l"," ",
           "i","n","t","e","l","l","i","g","e","n","c","e" >> :> << "a","i" >>)

\* the key a table gives to s
KeyUnder(table, s) ==
  IF LowerTrim(s) \in DOMAIN table THEN table[LowerTrim(s)] ELSE LowerTrim(s)

\* what the claim says of normalize_skill, for a given synonym table
NormalizesBy(table) ==
  Normalized =>
    /\ \A i \in 1..2 : norm_out[i] = KeyUnder(table, norm_in[i])
    /\ norm_out[1] = norm_out[2] =>
         \/ LowerTrim(norm_in[1]) = LowerTrim(norm_in[2])
         \/ \E i \in 1..2 : LowerTrim(norm_in[i]) \in DOMAIN table
    /\ pc = "normalized twice" => norm_again = norm_out

\* C17, as stated: the key is lowercase(trim(s)), replaced by its entry in
\* the table node.js, next.js, c++, c#, machine learning, data science and
\* unchanged otherwise; equal keys come from equal lowercased-trimmed forms
\* or from the table; normalizing a key returns the same key.
C17_KeyByListedTable == NormalizesBy(ListedSynonyms)

\* C17, amended: the same with the table the code has, which also maps
\* artificial intelligence to ai.
C17_KeyByCodeTable == NormalizesBy(AllSynonyms)

\* a padded 'Artificial Intelligence' and 'AI' got the same key 'ai', and
\* the key of that key is 'ai' again
C17_Witness ==
  /\ pc = "normalized twice"
  /\ Len(norm_in[1]) > 23
  /\ norm_in[2] = << "A","I" >>
  /\ norm_out = << << "a","i" >>, << "a","i" >> >>
  /\ norm_again = norm_out

----------------------------------------------------------------------------
(* Properties of queue_applications (SpecQueue) *)

\* the rows of the applications table for a user and a job
RowsFor(u, j) ==
  { i \in DOMAIN applications :
      applications[i].user_id = u /\ applications[i].job_id = j }

\* the rows the request r inserted
InsertedBy(r) == { i \in DOMAIN applications : applications[i].id[1] = r }

\* the request r found an application for each of its jobs
AllExisted(r) ==
  /\ requests[r].pc \in {"insert", "done"}
  /\ requests[r].response.code \notin {400, 404}
  /\ Range(requests[r].job_ids) \subseteq requests[r].existing_job_ids

\* C19, as stated: at every moment of every interleaving of requests the
\* applications table holds at most one row per (user_id, job_id), and a
\* request that found an application for each of its jobs is answered 409
\* and inserts nothing.
C19_AtMostOnePerPair ==
  /\ \A i, j \in DOMAIN applications :
       (/\ applications[i].user_id = applications[j].user_id
        /\ applications[i].job_id = applications[j].job_id) => i = j
  /\ \A r \in DOMAIN requests :
       AllExisted(r) => (requests[r].response.code = 409 /\ InsertedBy(r) = {})

\* C19, the part on the rejected request alone
C19_RejectedInsertsNothing ==
  \A r \in DOMAIN requests :
    AllExisted(r) => (requests[r].response.code = 409 /\ InsertedBy(r) = {})

\* C19, when the table has the unique constraint: no pair has two rows
C19_OnePerPairUnderConstraint ==
  unique_constraint =>
    \A u \in QueueUsers, j \in DOMAIN jobs_rows : Cardinality(RowsFor(u, j)) <= 1

----------------------------------------------------------------------------
(* Properties of mark_application_as_manually_submitted (SpecManual) *)

\* the request m is answered in this step
AnsweredNow(m) == marks[m].pc # "done" /\ marks'[m].pc = "done"

\* C20, as stated: the step that answers a request sets the status to
\* 'submitted' only if the status is 'materials_ready' at that moment; for
\* a row in any other status it answers 400 and leaves the row (status and
\* attempt_meta) as it is; for an unknown id it answers 404.
C20_SubmittedOnlyFromMaterialsReady ==
  [][ \A m \in DOMAIN marks :
        AnsweredNow(m) =>
          LET found == rows_with_id(applications, marks[m].application_id)
          IN  IF found = {}
              THEN marks'[m].response = 404 /\ applications' = applications
              ELSE \A i \in found :
                     IF applications[i].status = "materials_ready"
                     THEN applications'[i].status = "submitted"
                     ELSE /\ marks'[m].response = 400
                          /\ applications'[i] = applications[i] ]_vars

\* C20, for the status the request has read: a request is answered 200
\* only after it has read 'materials_ready', 400 after another status and
\* 404 for an unknown id; a row no request has read as 'materials_ready'
\* is never changed.
C20_SubmittedOnlyAfterReadingMaterialsReady ==
  [][ /\ \A m \in DOMAIN marks :
          AnsweredNow(m) =>
            \/ marks[m].pc = "update" /\ marks'[m].response = 200
            \/ /\ marks[m].pc = "select"
               /\ applications' = applications
               /\ marks'[m].response =
                    IF marks[m].application_id = UnknownId THEN 404 ELSE 400
               /\ marks[m].application_id = KnownId
                    => applications[1].status # "materials_ready"
      /\ applications' # applications =>
            \E m \in DOMAIN marks : marks[m].pc = "update" ]_vars

----------------------------------------------------------------------------
(* Spellings and overlapping terms (SpecExtract) *)

node_space_js == << "n","o","d","e"," ","j","s" >>

\* the lower-case term tl occurs in s as a whole word, letter case
\* ignored; low is s in lower case
WholeWordIn(tl, s, low) ==
  \E i \in 1..(Len(s) - Len(tl) + 1) :
    /\ SubSeq(low, i, i + Len(tl) - 1) = tl
    /\ Delimited(s, i, Len(tl))

\* the members of the returned list that stand for Node.js
NodeMembers == { i \in DOMAIN skills1 : TermKey(skills1[i]) = node_js }

\* C26 as stated: each of 'Node.js', 'Node js' and 'nodejs', in any letter
\* case, occurring in the text as a whole word is reported as 'Node.js',
\* and the text has one member for all of them.
C26_ThreeSpellingsCollapse ==
  Called =>
    LET low == lower(text)
    IN  \A sp \in { node_js, node_space_js, nodejs } :
          WholeWordIn(sp, text, low) =>
            /\ NodeJs \in Range(skills1)
            /\ Cardinality(NodeMembers) = 1

\* C26, amended: 'Node.js' and 'nodejs', in any letter case, occurring as
\* a whole word are reported as 'Node.js', with one member for all their
\* occurrences; 'Node.js' is reported for these two spellings only, so
\* 'Node js' on its own is not detected.
C26_DotAndJoinedCollapse ==
  Called =>
    /\ LET low == lower(text)
       IN  \A sp \in { node_js, nodejs } :
             WholeWordIn(sp, text, low) => NodeJs \in Range(skills1)
    /\ \A i \in NodeMembers : skills1[i] = NodeJs
    /\ Cardinality(NodeMembers) <= 1
    /\ NodeJs \in Range(skills1) =>
         \E sp \in { node_js, nodejs } : BoundedOccurrence(sp, text, FALSE)

\* a text that holds 'Node.js' and 'nodejs' has the one member 'Node.js'
C26_Witness ==
  /\ Called
  /\ OccursAsWholeWord(node_js, text)
  /\ OccursAsWholeWord(nodejs, text)
  /\ skills1 = << NodeJs >>

\* pairs of catalog terms of which the first is the start of the second
OverlappingTerms ==
  { << lower(skill_patterns[2][1]), lower(skill_patterns[9][1]) >>,
    << lower(skill_patterns[1][3]), lower(skill_patterns[1][2]) >> }

Reported(tl) == \E i \in DOMAIN skills1 : lower(skills1[i]) = tl

\* C27: of two catalog terms such as 'React' and 'React Native' (or 'Java'
\* and 'JavaScript'), each one that occurs in the text as a whole word is
\* reported, whether or not the other occurs: the shorter does not prevent
\* the longer from matching and the longer does not hide the shorter.
C27_OverlappingBothDetected ==
  Called =>
    LET low == lower(text)
    IN  \A pair \in OverlappingTerms :
          /\ WholeWordIn(pair[1], text, low) => Reported(pair[1])
          /\ WholeWordIn(pair[2], text, low) => Reported(pair[2])

\* a text with 'React Native' and, apart from it, 'React': both reported
C27_Witness ==
  /\ Called
  /\ text \in SpellingTexts
  /\ OccursAsWholeWord(lower(skill_patterns[9][1]), text)
  /\ Reported(lower(skill_patterns[2][1]))
  /\ Reported(lower(skill_patterns[9][1]))
  /\ Len(skills1) = 2

----------------------------------------------------------------------------
(* Display strings of analyze_job_match (SpecAnalyze) *)

\* the positions of the candidate's list whose string has the key of s
SameKeyPositions(s) ==
  { i \in DOMAIN user_skills :
      normalize_skill(user_skills[i]) = normalize_skill(s) }

\* the strings of the job's set that have the key of s
SameKeyMembers(s) ==
  { m \in job_skills : normalize_skill(m) = normalize_skill(s) }

FirstOf(P) == CHOOSE i \in P : \A j \in P : i <= j

LastOf(P) == CHOOSE i \in P : \A j \in P : j <= i

\* C24 as stated: a matching skill is emitted as the first string of the
\* candidate's list that has its key, and a missing skill as a string of
\* the job's set that has its key.
C24_FirstSeenWins ==
  pc = "analyzed" =>
    /\ \A i \in DOMAIN top_keywords :
         top_keywords[i] = user_skills[FirstOf(SameKeyPositions(top_keywords[i]))]
    /\ \A i \in DOMAIN missing_skills :
         missing_skills[i] \in SameKeyMembers(missing_skills[i])

\* C24, amended: a matching skill is emitted as the last string of the
\* candidate's list that has its key, and a missing skill as a string of
\* the job's set that has its key (the last one in the order in which the
\* set was iterated).
C24_LastSeenWins ==
  pc = "analyzed" =>
    /\ \A i \in DOMAIN top_keywords :
         top_keywords[i] = user_skills[LastOf(SameKeyPositions(top_keywords[i]))]
    /\ \A i \in DOMAIN missing_skills :
         missing_skills[i] \in SameKeyMembers(missing_skills[i])

\* the candidate lists two different strings of one key, which the job has
C24_Witness ==
  /\ pc = "analyzed"
  /\ \E i \in DOMAIN top_keywords :
       LET P == SameKeyPositions(top_keywords[i])
       IN  /\ Cardinality(P) = 2
           /\ user_skills[FirstOf(P)] # user_skills[LastOf(P)]
           /\ top_keywords[i] = user_skills[LastOf(P)]

----------------------------------------------------------------------------
(* analyze_job_match called twice (SpecRepeat) *)

BothReturned == calls[1].at = "returned" /\ calls[2].at = "returned"

\* C25: two calls of analyze_job_match on the same candidate skills, job
\* description and job requirements return the same lists, in the same
\* order and with the same entries kept by the cap.
C25_SameListsTwice ==
  BothReturned => calls[1].result = calls[2].result

\* what holds: the two calls return the same lists when they run in
\* processes that have the same hash seed, in one process for instance, and
\* each returns a dict analyze_job_match can return
C25_SameListsInOneProcess ==
  BothReturned =>
    /\ calls[1].seed = calls[2].seed => calls[1].result = calls[2].result
    /\ \A c \in 1..2 :
         calls[c].result \in
           { r.result : r \in analyze_job_match(calls[c].skills, calls[c].text,
                                                 calls[c].requirements) }

----------------------------------------------------------------------------
(* Order of the matches (SpecRank) *)

\* the cosine similarity of the resume and the job of a match, not rounded
SimilarityOf(m) == cosine_similarity(resume_embedding, jobs[m.job_id].embedding)

\* dot / sqrt(sq) of c is greater than that of d
Greater(c, d) ==
  IF c.dot >= 0 /\ d.dot >= 0 THEN c.dot * c.dot * d.sq > d.dot * d.dot * c.sq
  ELSE IF c.dot >= 0 THEN TRUE
  ELSE IF d.dot >= 0 THEN FALSE
  ELSE c.dot * c.dot * d.sq < d.dot * d.dot * c.sq

\* the matches of an answer of at least two matches
Ranked == pc = "done" /\ response.kind = "ok"

\* C22 as stated: the matches are in descending order of the cosine
\* similarities of their jobs, a job of strictly higher similarity never
\* after one of lower similarity, and jobs of equal similarity in the order
\* of the rows
C22_DescendingBySimilarity ==
  Ranked =>
    \A p, q \in DOMAIN response.matches :
      p < q =>
        LET a == response.matches[p]
            b == response.matches[q]
        IN  /\ ~ Greater(SimilarityOf(b), SimilarityOf(a))
            /\ ~ Greater(SimilarityOf(a), SimilarityOf(b)) => a.job_id < b.job_id

\* C22, amended: the matches are in descending order of the scores they
\* carry, which are the cosine similarities rounded to three decimals, a
\* job of strictly higher score never after one of lower score, and jobs of
\* equal score in the order of the rows
C22_DescendingByRoundedScore ==
  Ranked =>
    \A p, q \in DOMAIN response.matches :
      p < q =>
        LET a == response.matches[p]
            b == response.matches[q]
        IN  /\ a.score = round3(SimilarityOf(a))
            /\ b.score = round3(SimilarityOf(b))
            /\ a.score >= b.score
            /\ a.score = b.score => a.job_id < b.job_id

\* an answer in which a later row comes first for its higher score, and
\* two rows of equal score follow in the order of the rows
C22_Witness ==
  /\ Ranked
  /\ \E p, q \in DOMAIN response.matches :
       /\ p < q
       /\ response.matches[p].job_id > response.matches[q].job_id
       /\ response.matches[p].score > response.matches[q].score
  /\ \E p, q \in DOMAIN response.matches :
       /\ p < q
       /\ response.matches[p].score = response.matches[q].score
       /\ jobs[response.matches[p].job_id].embedding
            # jobs[response.matches[q].job_id].embedding

\* the call failed in the iteration of row i
FailedAt(i) == pc = "done" /\ response.kind = "HTTP500" /\ idx = i

\* the loop is past row i, or the call ended at it
Reached(i) == Processed(i) \/ (pc = "done" /\ idx = i)

\* C23: a row without a usable embedding (no embedding key, a null
\* embedding or an empty one) is skipped: it is in no match and the call
\* does not fail at it.
C23_UnusableEmbeddingSkipped ==
  \A i \in DOMAIN jobs :
    (Reached(i) /\ ~ HasUsableEmbedding(i)) =>
      /\ \A k \in DOMAIN job_matches : job_matches[k].job_id # i
      /\ ~ FailedAt(i)

\* what holds: a row without the embedding key or with an empty embedding
\* is skipped, and the call fails at a row exactly when its embedding or,
\* the row being scored, its description is null
C23_MissingOrEmptySkipped ==
  \A i \in DOMAIN jobs :
    /\ (Reached(i) /\ ~ HasUsableEmbedding(i) /\ ~ jobs[i].embedding_is_null) =>
         /\ \A k \in DOMAIN job_matches : job_matches[k].job_id # i
         /\ ~ FailedAt(i)
    /\ (Reached(i) /\ jobs[i].raw_is_dict /\ jobs[i].has_embedding
           /\ jobs[i].embedding_is_null) => FailedAt(i)

----------------------------------------------------------------------------
(* Properties of concurrent calls (SpecCalls) *)

\* what the call returns when no other call is made
ReturnsAlone(c) ==
  IF calls[c].fn = "extract" THEN extract_skills_from_text(calls[c].text)
  ELSE { r.result : r \in analyze_job_match(calls[c].skills, calls[c].text,
                                             calls[c].requirements) }

C21_ReturnsAsAlone ==
  \A c \in DOMAIN calls :
    calls[c].at = "returned" => calls[c].result \in ReturnsAlone(c)

C21_ArgumentsKept ==
  \A c \in DOMAIN calls :
    /\ calls'[c].fn = calls[c].fn
    /\ calls'[c].text = calls[c].text
    /\ calls'[c].skills = calls[c].skills
    /\ calls'[c].requirements = calls[c].requirements

\* C21: whatever the interleaving of the steps of concurrent calls of
\* extract_skills_from_text and analyze_job_match, a call that has returned
\* has returned a result it returns when it runs alone on its arguments, and
\* no step of any call changes the arguments of a call.
C21_CallsAreIndependent ==
  [] C21_ReturnsAsAlone /\ [][C21_ArgumentsKept]_vars

\* a call has returned a non-empty result after running while a call on
\* another text was between its steps, and that call has put skills of its
\* own in its set
C21_Witness ==
  \E c, d \in DOMAIN calls :
    /\ c # d
    /\ calls[c].at = "returned"
    /\ calls[c].overlapped
    /\ calls[c].local # {}
    /\ calls[d].at = "loop"
    /\ calls[d].overlapped
    /\ calls[d].local # {}
    /\ calls[d].local # calls[c].local
    /\ calls[d].text # calls[c].text

----------------------------------------------------------------------------
(* The worker endpoints and WorkerManager (SpecManager) *)

ApiDone(c) == manager_calls[c].api /\ manager_calls[c].pc = "done"

\* the endpoint found the worker in the state that makes it refuse
Refused(c) ==
  /\ ApiDone(c)
  /\ \/ manager_calls[c].op = "start" /\ manager_calls[c].api_saw = "running"
     \/ manager_calls[c].op = "stop" /\ manager_calls[c].api_saw = "stopped"

\* C28: POST /worker/start that finds the worker running answers 400 and
\* starts no process; POST /worker/stop that finds no worker running
\* answers 400.
C28_RefusedWith400 ==
  \A c \in DOMAIN manager_calls :
    Refused(c) => manager_calls[c].http = 400 /\ manager_calls[c].spawned = 0

\* what holds: the refusal reaches the client as HTTP 500, and the call
\* has started no process and ended none
C28_RefusedWith500 ==
  \A c \in DOMAIN manager_calls :
    Refused(c) =>
      /\ manager_calls[c].http = 500
      /\ manager_calls[c].spawned = 0
      /\ manager_calls[c].pid = 0
      /\ manager_calls[c].result = "none"

\* a run is over
RunEnded == worker_run.pc = "idle" /\ worker_run.runs > 0

\* C29: when a run ends, every application it fetched has a status other
\* than 'draft' in the database, the one that matches the result of the
\* run for it: 'submitted' for applied, 'skipped' for skipped, 'failed' for
\* failed.
C29_FetchedLeaveDraft ==
  RunEnded =>
    \A k \in DOMAIN worker_run.fetched :
      LET st == applications[worker_run.fetched[k]].status
      IN  /\ st # "draft"
          /\ st = status_written(worker_run.results[k])

\* what holds: only an application the run reports as applied has been
\* written, as 'submitted'; one reported skipped or failed is still 'draft'
C29_OnlyAppliedWritten ==
  RunEnded =>
    /\ Len(worker_run.results) = Len(worker_run.fetched)
    /\ Len(worker_run.fetched) <= FetchLimit
    /\ \A k \in DOMAIN worker_run.fetched :
         LET st == applications[worker_run.fetched[k]].status
         IN  IF worker_run.results[k] = "applied"
             THEN st \in { "submitted", "draft" }
             ELSE st = "draft"

AllDone == \A c \in DOMAIN manager_calls : manager_calls[c].pc = "done"

\* C30: whatever the interleaving of start, stop and restart calls, at
\* most one worker process is alive at a time; once the calls are over, the
\* PID file holds the pid of the worker that is alive; a call of start (on
\* its own, or made by an endpoint) that found a worker running has spawned
\* nothing and returned False.
C30_AtMostOneWorker ==
  /\ Cardinality(processes) <= 1
  /\ AllDone => (processes # {} => pid_file \in processes)
  /\ \A c \in DOMAIN manager_calls :
       (manager_calls[c].pc = "done" /\ manager_calls[c].op = "start"
          /\ manager_calls[c].spawned = 0 /\ manager_calls[c].site = "start")
         => manager_calls[c].result = "False"

\* what holds: every process alive was started by one of the calls or was
\* there before them, a call has started at most one process, and a call
\* that starts a process had found no worker running
C30_OneWorkerPerStart ==
  /\ Cardinality(processes) <= 1 + Cardinality(
       { c \in DOMAIN manager_calls : manager_calls[c].spawned > 0 })
  /\ \A c \in DOMAIN manager_calls : manager_calls[c].spawned <= 1

====
